---- MODULE Spec2Model ----
(***************************************************************************)
(* A model of the eve.fit fitting core:                                    *)
(*   - the fitting store (src/store/fitting-store.ts) with the stats       *)
(*     calculator and skill overlay it calls, the UI handlers that feed it *)
(*     and the two import paths (EFT text, ESI fitting);                   *)
(*   - the EFT text codec (src/lib/eft-parser.ts);                         *)
(*   - the skill plan resolver (src/lib/skill-plan.ts).                    *)
(* Arrays are 0-based in the source and 1-based here: the module stored at *)
(* source index i is element i+1 of the sequence, and slot_index keeps the *)
(* source's 0-based value.                                                 *)
(***************************************************************************)
EXTENDS Integers, Sequences, FiniteSets, TLC

VARIABLES fitting, shipType, stats, skillDeltas, skillMode, skillMap, dirty,
          storage, lastOp,
          rtOpts, rtText, rtParsed, rtPc,
          planInput, allReqs, visited, tasks, skillNames, plan, planPc, fetchCount,
          calcArgs, calcResult, calcPc

storeVars == <<fitting, shipType, stats, skillDeltas, skillMode, skillMap, dirty, storage, lastOp>>

codecVars == <<rtOpts, rtText, rtParsed, rtPc>>

planVars == <<planInput, allReqs, visited, tasks, skillNames, plan, planPc, fetchCount>>

calcVars == <<calcArgs, calcResult, calcPc>>

vars == <<storeVars, codecVars, planVars, calcVars>>

\* ------------------------------------------------------------------ basics

Null == [nil |-> TRUE]

Min(a, b) == IF a <= b THEN a ELSE b

Max(a, b) == IF a >= b THEN a ELSE b

NonNull(s) == SelectSeq(s, LAMBDA m : m # Null)

\* ------------------------------------------------------- dogma identifiers

ATTR_POWERGRID == 11
ATTR_CPU == 48
ATTR_MODULE_PG_USAGE == 30
ATTR_MODULE_CPU_USAGE == 50
ATTR_MODULE_ACTIVATION_COST == 15
ATTR_MODULE_CYCLE_TIME == 51
ATTR_DRONE_CAPACITY == 283
ATTR_DRONE_BANDWIDTH == 1271
ATTR_LOW_SLOTS == 12
ATTR_MED_SLOTS == 13
ATTR_HI_SLOTS == 14
ATTR_LAUNCHER_SLOTS_LEFT == 101
ATTR_TURRET_SLOTS_LEFT == 102
EFFECT_TURRET_FITTED == 42
EFFECT_LAUNCHER_FITTED == 40
EFFECT_HI_POWER == 11
EFFECT_LO_POWER == 12
EFFECT_RIG_SLOT == 2663
EFFECT_MED_POWER == 13
EFFECT_SUBSYSTEM == 3772
CATEGORY_SHIP == 6
CATEGORY_MODULE == 7
CATEGORY_DRONE == 18
CATEGORY_SKILL == 16
SKILL_CPU_MANAGEMENT == 3426
SKILL_POWER_GRID_MANAGEMENT == 3413
SKILL_CAPACITOR_MANAGEMENT == 3418
SKILL_CAPACITOR_SYSTEMS_OPERATION == 3417
SKILL_SHIELD_MANAGEMENT == 3419
SKILL_HULL_UPGRADES == 3394
SKILL_MECHANICS == 3392
SKILL_NAVIGATION == 3449
SKILL_EVASIVE_MANEUVERING == 3453
SKILL_TARGET_MANAGEMENT == 3428
SKILL_LONG_RANGE_TARGETING == 3431
SKILL_SIGNATURE_ANALYSIS == 3432

\* The twelve support skills of SUPPORT_SKILL_IDS.
SupportSkillIds == {3426, 3413, 3418, 3417, 3419, 3394, 3392, 3449, 3453, 3428, 3431, 3432}

\* The slot-count cap and the fixed rig count the ship selector and the ESI
\* converter apply, and the minimum rack sizes the EFT import builds.
SLOT_CAP == 8
RIG_SLOTS == 3
EFT_MIN_HIGH == 8
EFT_MIN_MID == 5
EFT_MIN_LOW == 5
EFT_MIN_RIG == 3

\* ------------------------------------------------- the type data (external)
\* What the type data provider answers: two ships and five item types.  The
\* values are small so that a rack fills within a few steps; ship CPU and
\* powergrid are multiples of 20 so that the 5%-per-level skill bonus is exact
\* in integers.  One ship (Stabber) defines no turret attribute at all.

Rifter == [type_id |-> 587, name |-> "Rifter", category_id |-> CATEGORY_SHIP,
           attrs |-> [a \in {ATTR_HI_SLOTS, ATTR_MED_SLOTS, ATTR_LOW_SLOTS, ATTR_TURRET_SLOTS_LEFT,
                             ATTR_LAUNCHER_SLOTS_LEFT, ATTR_CPU, ATTR_POWERGRID} |->
                        CASE a = ATTR_HI_SLOTS -> 3 [] a = ATTR_MED_SLOTS -> 1
                          [] a = ATTR_LOW_SLOTS -> 0 [] a = ATTR_TURRET_SLOTS_LEFT -> 2
                          [] a = ATTR_LAUNCHER_SLOTS_LEFT -> 1 [] a = ATTR_CPU -> 120
                          [] OTHER -> 40],
           effects |-> {}]

Stabber == [type_id |-> 24692, name |-> "Stabber", category_id |-> CATEGORY_SHIP,
            attrs |-> [a \in {ATTR_HI_SLOTS, ATTR_MED_SLOTS, ATTR_LOW_SLOTS,
                              ATTR_LAUNCHER_SLOTS_LEFT, ATTR_CPU, ATTR_POWERGRID} |->
                         CASE a = ATTR_HI_SLOTS -> 2 [] a = ATTR_MED_SLOTS -> 0
                           [] a = ATTR_LOW_SLOTS -> 1 [] a = ATTR_LAUNCHER_SLOTS_LEFT -> 4
                           [] a = ATTR_CPU -> 100 [] OTHER -> 60],
            effects |-> {}]

Turret == [type_id |-> 2961, name |-> "Gun", category_id |-> CATEGORY_MODULE,
           attrs |-> [a \in {ATTR_MODULE_CPU_USAGE, ATTR_MODULE_PG_USAGE,
                             ATTR_MODULE_ACTIVATION_COST, ATTR_MODULE_CYCLE_TIME} |->
                        CASE a = ATTR_MODULE_CPU_USAGE -> 7 [] a = ATTR_MODULE_PG_USAGE -> 3
                          [] a = ATTR_MODULE_ACTIVATION_COST -> 6 [] OTHER -> 3000],
           effects |-> {EFFECT_HI_POWER, EFFECT_TURRET_FITTED}]

Launcher == [type_id |-> 499, name |-> "Tube", category_id |-> CATEGORY_MODULE,
             attrs |-> [a \in {ATTR_MODULE_CPU_USAGE, ATTR_MODULE_PG_USAGE,
                               ATTR_MODULE_CYCLE_TIME} |->
                          CASE a = ATTR_MODULE_CPU_USAGE -> 11 [] a = ATTR_MODULE_PG_USAGE -> 2
                            [] OTHER -> 4000],
             effects |-> {EFFECT_HI_POWER, EFFECT_LAUNCHER_FITTED}]

Plate == [type_id |-> 2048, name |-> "Plate", category_id |-> CATEGORY_MODULE,
          attrs |-> [a \in {ATTR_MODULE_CPU_USAGE, ATTR_MODULE_ACTIVATION_COST,
                            ATTR_MODULE_CYCLE_TIME} |->
                       CASE a = ATTR_MODULE_CPU_USAGE -> 5
                         [] a = ATTR_MODULE_ACTIVATION_COST -> 1 [] OTHER -> 1000],
          effects |-> {EFFECT_LO_POWER}]

Trimark == [type_id |-> 31055, name |-> "Trimark", category_id |-> CATEGORY_MODULE,
            attrs |-> [a \in {ATTR_MODULE_CPU_USAGE} |-> 0],
            effects |-> {EFFECT_RIG_SLOT}]

Drone == [type_id |-> 2488, name |-> "Warrior", category_id |-> CATEGORY_DRONE,
          attrs |-> [a \in {ATTR_MODULE_CPU_USAGE, ATTR_DRONE_BANDWIDTH, ATTR_DRONE_CAPACITY} |->
                        IF a = ATTR_MODULE_CPU_USAGE THEN 0 ELSE 5],
          effects |-> {}]

Ships == {Rifter, Stabber}

ModuleTypes == {Turret, Launcher, Plate, Trimark}

AllTypes == Ships \cup ModuleTypes \cup {Drone}

TypeById(id) == CHOOSE t \in AllTypes : t.type_id = id

SlotTypes == {"high", "mid", "low", "rig", "subsystem"}

\* ------------------------------------------------------ attribute lookup

\* shipAttr: the value of a dogma attribute of a type, or the fallback.
shipAttr(type, attrId, fallback) ==
    IF attrId \in DOMAIN type.attrs THEN type.attrs[attrId] ELSE fallback

\* modAttr: mod.attributes?.[attrId] ?? fallback.
modAttr(mod, attrId, fallback) ==
    IF attrId \in DOMAIN mod.attributes THEN mod.attributes[attrId] ELSE fallback

\* mod.effects ?? [].
modEffects(mod) == mod.effects

\* ------------------------------------------------------- stats calculator

allFittedModules(f) ==
    NonNull(f.high_slots \o f.mid_slots \o f.low_slots \o f.rig_slots \o f.subsystem_slots)

RECURSIVE SumUsage(_, _)
\* The loop of calcEngineering for one usage attribute: offline modules are
\* skipped, every other module adds its attribute (0 when it has none).
SumUsage(mods, attrId) ==
    IF mods = <<>> THEN 0
    ELSE (IF Head(mods).state = "offline" THEN 0 ELSE modAttr(Head(mods), attrId, 0))
         + SumUsage(Tail(mods), attrId)

RECURSIVE SumDroneUsage(_, _)
\* The loop of calcEngineering for one drone attribute: of the modules that
\* are not offline, those with slot_type "drone" add their attribute.
SumDroneUsage(mods, attrId) ==
    IF mods = <<>> THEN 0
    ELSE (IF Head(mods).state # "offline" /\ Head(mods).slot_type = "drone"
          THEN modAttr(Head(mods), attrId, 0) ELSE 0)
         + SumDroneUsage(Tail(mods), attrId)

calcEngineering(ship, f) ==
    LET cpuTotal == shipAttr(ship, ATTR_CPU, 0)
        pgTotal == shipAttr(ship, ATTR_POWERGRID, 0)
        modules == allFittedModules(f)
        cpuUsed == SumUsage(modules, ATTR_MODULE_CPU_USAGE)
        pgUsed == SumUsage(modules, ATTR_MODULE_PG_USAGE)
    IN  [cpu_total |-> cpuTotal, cpu_used |-> cpuUsed, cpu_remaining |-> cpuTotal - cpuUsed,
         pg_total |-> pgTotal, pg_used |-> pgUsed, pg_remaining |-> pgTotal - pgUsed,
         drone_bandwidth_total |-> shipAttr(ship, ATTR_DRONE_BANDWIDTH, 0),
         drone_bandwidth_used |-> SumDroneUsage(modules, ATTR_DRONE_BANDWIDTH),
         drone_capacity |-> shipAttr(ship, ATTR_DRONE_CAPACITY, 0),
         drone_capacity_used |-> SumDroneUsage(modules, ATTR_DRONE_CAPACITY)]

\* A drain summed over every module that is not offline.
activeModules_notOffline(f) ==
    SelectSeq(allFittedModules(f), LAMBDA m : m.state # "offline")

activeModules(f) == SelectSeq(allFittedModules(f), LAMBDA m : m.state = "active")

RECURSIVE SumDrain(_)
\* The loop of calcCapacitor: a module with a positive activation cost and
\* a positive cycle time adds activationCost / (cycleTimeMs / 1000), in GJ
\* per second (the attributes of the module types make the quotient whole).
SumDrain(mods) ==
    IF mods = <<>> THEN 0
    ELSE LET activationCost == modAttr(Head(mods), ATTR_MODULE_ACTIVATION_COST, 0)
             cycleTimeMs == modAttr(Head(mods), ATTR_MODULE_CYCLE_TIME, 0)
         IN  (IF activationCost > 0 /\ cycleTimeMs > 0
              THEN (activationCost * 1000) \div cycleTimeMs ELSE 0)
             + SumDrain(Tail(mods))

\* The drain of calcCapacitor; its other fields follow from the ship's
\* capacitor attributes and simulateCap.
calcCapacitor(ship, f) == [drain_per_second |-> SumDrain(activeModules(f))]

calculateShipStats(ship, f) ==
    [engineering |-> calcEngineering(ship, f),
     capacitor |-> calcCapacitor(ship, f),
     high_slots |-> Len(f.high_slots),
     mid_slots |-> Len(f.mid_slots),
     low_slots |-> Len(f.low_slots),
     rig_slots |-> Len(f.rig_slots),
     turret_hardpoints |-> shipAttr(ship, ATTR_TURRET_SLOTS_LEFT, 0),
     launcher_hardpoints |-> shipAttr(ship, ATTR_LAUNCHER_SLOTS_LEFT, 0)]

\* ------------------------------------------------------ skill bonus engine

\* lvl: skills[skillId] ?? 0.
lvl(skills, skillId) == IF skillId \in DOMAIN skills THEN skills[skillId] ELSE 0

allLevelVSkillMap == [id \in SupportSkillIds |-> 5]

\* base * (1 + 0.05 * level), exact because the bases are multiples of 20.
Bonus5(base, level) == (base * (20 + level)) \div 20

\* applySkillBonuses: the skilled stats (the source overwrites its argument
\* in place; the caller passes the fresh snapshot) and the deltas.
applySkillBonuses(st, skills) ==
    LET e == st.engineering
        cpuTotal == Bonus5(e.cpu_total, lvl(skills, SKILL_CPU_MANAGEMENT))
        pgTotal == Bonus5(e.pg_total, lvl(skills, SKILL_POWER_GRID_MANAGEMENT))
        skilled == [st EXCEPT !.engineering =
                       [e EXCEPT !.cpu_total = cpuTotal, !.cpu_remaining = cpuTotal - e.cpu_used,
                                 !.pg_total = pgTotal, !.pg_remaining = pgTotal - e.pg_used]]
    IN  [stats |-> skilled,
         skillDeltas |-> [cpu_total |-> cpuTotal - e.cpu_total, pg_total |-> pgTotal - e.pg_total]]

\* A recharge bonus applied with the sign of the capacity bonus.
Malus5_raises(base, level) == (base * (20 + level)) \div 20

\* base * (1 - 0.05 * level), exact because the bases are multiples of 20.
Malus5(base, level) == (base * (20 - level)) \div 20

\* The capacitor lines of applySkillBonuses: capacity and recharge time.
\* The stability fields the source refreshes through simulateCap are not
\* part of this record.
capacitorBonuses(capacitor, skills) ==
    [capacitor EXCEPT
        !.capacity = Bonus5(capacitor.capacity, lvl(skills, SKILL_CAPACITOR_MANAGEMENT)),
        !.recharge_rate = Malus5(capacitor.recharge_rate,
                                 lvl(skills, SKILL_CAPACITOR_SYSTEMS_OPERATION))]

\* The defense lines: the hit points of one layer under its skill.
layerBonus(layer, skills, skillId) ==
    [layer EXCEPT !.hp = Bonus5(layer.hp, lvl(skills, skillId))]

\* The navigation lines: velocity up, inertia down, agility a copy of inertia.
navigationBonuses(navigation, skills) ==
    LET inertia == Malus5(navigation.inertia_modifier, lvl(skills, SKILL_EVASIVE_MANEUVERING))
    IN  [navigation EXCEPT
            !.max_velocity = Bonus5(navigation.max_velocity, lvl(skills, SKILL_NAVIGATION)),
            !.inertia_modifier = inertia,
            !.agility = inertia]

\* The targeting lines: one more target per level, range and resolution up.
targetingBonuses(targeting, skills) ==
    [targeting EXCEPT
        !.max_targets = targeting.max_targets + lvl(skills, SKILL_TARGET_MANAGEMENT),
        !.max_target_range = Bonus5(targeting.max_target_range,
                                    lvl(skills, SKILL_LONG_RANGE_TARGETING)),
        !.scan_resolution = Bonus5(targeting.scan_resolution,
                                   lvl(skills, SKILL_SIGNATURE_ANALYSIS))]

\* applySkillBonuses on a snapshot that carries every bonused section.
applySkillBonusesAll(st, skills) ==
    [engineering |-> applySkillBonuses(st, skills).stats.engineering,
     capacitor |-> capacitorBonuses(st.capacitor, skills),
     shield |-> layerBonus(st.shield, skills, SKILL_SHIELD_MANAGEMENT),
     armor |-> layerBonus(st.armor, skills, SKILL_HULL_UPGRADES),
     hull |-> layerBonus(st.hull, skills, SKILL_MECHANICS),
     navigation |-> navigationBonuses(st.navigation, skills),
     targeting |-> targetingBonuses(st.targeting, skills)]

\* computeStatsWithSkills of the store.  skillMap is Null or [levels |-> map].
computeStatsWithSkills(ship, f, mode, map) ==
    LET base == calculateShipStats(ship, f)
    IN  IF mode = "none" THEN [stats |-> base, skillDeltas |-> Null]
        ELSE IF mode = "allV" THEN applySkillBonuses(base, allLevelVSkillMap)
        ELSE IF map = Null THEN [stats |-> base, skillDeltas |-> Null]
        ELSE applySkillBonuses(base, map.levels)

\* ------------------------------------------------------------ EFT codec
\* A string is the sequence of its characters; an optional field is Null
\* when absent and Some(x) when present.

Some(x) == [v |-> x]

IsSpace(c) == c \in {" ", "\n"}

RECURSIVE trimStart(_)
trimStart(s) == IF s # <<>> /\ IsSpace(Head(s)) THEN trimStart(Tail(s)) ELSE s

RECURSIVE trimEnd(_)
trimEnd(s) ==
    IF s # <<>> /\ IsSpace(s[Len(s)]) THEN trimEnd(SubSeq(s, 1, Len(s) - 1)) ELSE s

\* String.prototype.trim.
trim(s) == trimEnd(trimStart(s))

\* s.indexOf(c) counted from 1; 0 when c does not occur.
indexOf(s, c) ==
    IF \E i \in DOMAIN s : s[i] = c
    THEN CHOOSE i \in DOMAIN s : s[i] = c /\ \A j \in 1..(i - 1) : s[j] # c
    ELSE 0

RECURSIVE split(_)
\* text.split("\n").
split(s) ==
    IF indexOf(s, "\n") = 0 THEN <<s>>
    ELSE <<SubSeq(s, 1, indexOf(s, "\n") - 1)>> \o split(SubSeq(s, indexOf(s, "\n") + 1, Len(s)))

RECURSIVE join(_)
\* lines.join("\n").
join(lines) ==
    IF lines = <<>> THEN <<>>
    ELSE IF Len(lines) = 1 THEN lines[1]
    ELSE lines[1] \o <<"\n">> \o join(Tail(lines))

startsWith(s, prefix) == Len(s) >= Len(prefix) /\ SubSeq(s, 1, Len(prefix)) = prefix

DigitChars == <<"0", "1", "2", "3", "4", "5", "6", "7", "8", "9">>

IsDigit(c) == \E d \in DOMAIN DigitChars : DigitChars[d] = c

RECURSIVE parseInt(_)
\* parseInt(digits, 10) of a string of decimal digits.
parseInt(s) ==
    IF s = <<>> THEN 0
    ELSE 10 * parseInt(SubSeq(s, 1, Len(s) - 1)) + (indexOf(DigitChars, s[Len(s)]) - 1)

RECURSIVE numberToString(_)
\* The decimal digits `${n}` writes for a non-negative integer.
numberToString(n) ==
    IF n < 10 THEN <<DigitChars[n + 1]>>
    ELSE numberToString(n \div 10) \o <<DigitChars[(n % 10) + 1]>>

\* The ways /^\[(.+?),\s*(.+?)\]$/ can match a line: k characters in the
\* first group, w of whitespace after the comma, the rest up to the closing
\* bracket in the second group.
headerSplits(h) ==
    {kw \in (1..Len(h)) \X (0..Len(h)) :
        /\ h[1] = "[" /\ h[Len(h)] = "]"
        /\ kw[1] + 2 <= Len(h) /\ h[kw[1] + 2] = ","
        /\ kw[1] + 2 + kw[2] + 1 <= Len(h) - 1
        /\ \A i \in (kw[1] + 3)..(kw[1] + 2 + kw[2]) : IsSpace(h[i])}

\* The match the regex engine returns: the lazy first group is the shortest
\* that lets the rest match, the greedy \s* the longest for it.
headerMatch(h) ==
    LET k == CHOOSE k \in 1..Len(h) :
                 /\ \E w \in 0..Len(h) : <<k, w>> \in headerSplits(h)
                 /\ \A j \in 1..(k - 1) : \A w \in 0..Len(h) : <<j, w>> \notin headerSplits(h)
        w == CHOOSE w \in 0..Len(h) :
                 /\ <<k, w>> \in headerSplits(h)
                 /\ \A v \in (w + 1)..Len(h) : <<k, v>> \notin headerSplits(h)
    IN  <<SubSeq(h, 2, k + 1), SubSeq(h, k + 3 + w, Len(h) - 1)>>

\* The lengths k of the first group with which /^(.+?)\s+x(\d+)$/ matches.
quantitySplits(line) ==
    {k \in 1..Len(line) :
        \E x \in (k + 2)..(Len(line) - 1) :
            /\ line[x] = "x"
            /\ \A i \in (k + 1)..(x - 1) : IsSpace(line[i])
            /\ \A i \in (x + 1)..Len(line) : IsDigit(line[i])}

\* name and charge of "name, charge"; the charge is absent without a comma.
nameAndCharge(s) ==
    IF indexOf(s, ",") # 0
    THEN [name |-> trim(SubSeq(s, 1, indexOf(s, ",") - 1)),
          charge |-> Some(trim(SubSeq(s, indexOf(s, ",") + 1, Len(s))))]
    ELSE [name |-> s, charge |-> Null]

\* parseEFTLine: Null for an empty line or an empty-slot marker.
parseEFTLine(line) ==
    IF line = <<>> \/ startsWith(line, <<"[", "E", "m", "p", "t", "y">>) THEN Null
    ELSE IF quantitySplits(line) # {}
    THEN LET k == CHOOSE k \in quantitySplits(line) : \A j \in quantitySplits(line) : k <= j
             x == CHOOSE x \in (k + 2)..(Len(line) - 1) :
                      /\ line[x] = "x"
                      /\ \A i \in (k + 1)..(x - 1) : IsSpace(line[i])
                      /\ \A i \in (x + 1)..Len(line) : IsDigit(line[i])
             namePart == trim(SubSeq(line, 1, k))
             nc == nameAndCharge(namePart)
         IN  [name |-> nc.name, charge |-> nc.charge,
              quantity |-> Some(parseInt(SubSeq(line, x + 1, Len(line))))]
    ELSE IF indexOf(line, ",") # 0
    THEN [name |-> nameAndCharge(line).name, charge |-> nameAndCharge(line).charge,
          quantity |-> Null]
    ELSE [name |-> trim(line), charge |-> Null, quantity |-> Null]

\* `[Empty ${slotLabel} slot]`.
emptySlotMarker(slotLabel) ==
    <<"[", "E", "m", "p", "t", "y", " ">> \o slotLabel \o <<" ", "s", "l", "o", "t", "]">>

LabelLow == <<"L", "o", "w">>

LabelMid == <<"M", "i", "d">>

LabelHigh == <<"H", "i", "g", "h">>

LabelRig == <<"R", "i", "g">>

LabelSubsystem == <<"S", "u", "b", "s", "y", "s", "t", "e", "m">>

\* The five marker lines parseEFT skips.
EmptyMarkers ==
    {emptySlotMarker(l) : l \in {LabelLow, LabelMid, LabelHigh, LabelRig, LabelSubsystem}}

\* A section loop in which a marker line closes the section like a blank one.
isBoundary_marker(line) == line = <<>> \/ line \in EmptyMarkers

\* if (line === "") { push the current section when it has lines }
isBoundary(line) == line = <<>>

RECURSIVE parseSections(_, _, _, _)
\* The section loop of parseEFT from line i on, and the push of the last
\* section after it.
parseSections(lines, i, sections, currentSection) ==
    IF i > Len(lines)
    THEN (IF currentSection # <<>> THEN Append(sections, currentSection) ELSE sections)
    ELSE LET line == trim(lines[i])
         IN  IF isBoundary(line)
             THEN (IF currentSection # <<>>
                   THEN parseSections(lines, i + 1, Append(sections, currentSection), <<>>)
                   ELSE parseSections(lines, i + 1, sections, currentSection))
             ELSE IF line \in EmptyMarkers
             THEN parseSections(lines, i + 1, sections, currentSection)
             ELSE IF parseEFTLine(line) # Null
             THEN parseSections(lines, i + 1, sections, Append(currentSection, parseEFTLine(line)))
             ELSE parseSections(lines, i + 1, sections, currentSection)

\* sections[n] || [] for the source index n.
sectionAt(sections, n) == IF n + 1 \in DOMAIN sections THEN sections[n + 1] ELSE <<>>

\* parseEFT: [ok |-> FALSE] stands for the thrown error.
parseEFT(eftText) ==
    LET lines == split(trim(eftText))
        headerLine == trim(lines[1])
        sections == parseSections(lines, 2, <<>>, <<>>)
    IN  IF headerSplits(headerLine) = {} THEN [ok |-> FALSE]
        ELSE [ok |-> TRUE,
              shipName |-> trim(headerMatch(headerLine)[1]),
              fitName |-> trim(headerMatch(headerLine)[2]),
              lowSlots |-> sectionAt(sections, 0),
              midSlots |-> sectionAt(sections, 1),
              highSlots |-> sectionAt(sections, 2),
              rigSlots |-> sectionAt(sections, 3),
              subsystems |-> sectionAt(sections, 4),
              drones |-> sectionAt(sections, 5),
              cargo |-> sectionAt(sections, 6)]

\* A line format that writes every quantity, 1 included.
formatEFTLine_writesOne(item) ==
    item.name
    \o (IF item.charge # Null /\ item.charge # Some(<<>>) THEN <<",", " ">> \o item.charge.v ELSE <<>>)
    \o (IF item.quantity # Null /\ item.quantity # Some(0) /\ item.quantity.v >= 1
        THEN <<" ", "x">> \o numberToString(item.quantity.v) ELSE <<>>)

\* formatEFTLine: a charge is written when it is a non-empty string, a
\* quantity when it is greater than 1.
formatEFTLine(item) ==
    item.name
    \o (IF item.charge # Null /\ item.charge # Some(<<>>) THEN <<",", " ">> \o item.charge.v ELSE <<>>)
    \o (IF item.quantity # Null /\ item.quantity # Some(0) /\ item.quantity.v > 1
        THEN <<" ", "x">> \o numberToString(item.quantity.v) ELSE <<>>)

\* A rack section whose last module gives way to a marker.
appendSlotSection_dropsLast(slots, slotCount, slotLabel) ==
    LET count == IF slotCount = Null THEN Len(slots) ELSE slotCount.v
    IN  [i \in 1..count |-> IF i < Len(slots) THEN formatEFTLine(slots[i])
                            ELSE emptySlotMarker(slotLabel)]

\* appendSlotSection: the lines of one rack; slotCount is Null when the
\* option is not given.
appendSlotSection(slots, slotCount, slotLabel) ==
    LET count == IF slotCount = Null THEN Len(slots) ELSE slotCount.v
    IN  [i \in 1..count |-> IF i <= Len(slots) THEN formatEFTLine(slots[i])
                            ELSE emptySlotMarker(slotLabel)]

formatLines(items) == [i \in DOMAIN items |-> formatEFTLine(items[i])]

\* serializeEFT: the lines in the order written, joined by newlines.
serializeEFT(opts) ==
    join(<<<<"[">> \o opts.shipName \o <<",", " ">> \o opts.fitName \o <<"]">>>>
         \o appendSlotSection(opts.lowSlots, opts.lowSlotCount, LabelLow) \o <<<<>>>>
         \o appendSlotSection(opts.midSlots, opts.midSlotCount, LabelMid) \o <<<<>>>>
         \o appendSlotSection(opts.highSlots, opts.highSlotCount, LabelHigh) \o <<<<>>>>
         \o appendSlotSection(opts.rigSlots, opts.rigSlotCount, LabelRig)
         \o (IF opts.subsystems # <<>> THEN <<<<>>>> \o formatLines(opts.subsystems) ELSE <<>>)
         \o (IF opts.drones # <<>> THEN <<<<>>, <<>>>> \o formatLines(opts.drones) ELSE <<>>)
         \o (IF opts.cargo # <<>> THEN <<<<>>>> \o formatLines(opts.cargo) ELSE <<>>))

\* isEFTFormat: /^\[.+,\s*.+\]/ on the trimmed text.  `.` does not cross a
\* newline, \s does.
isEFTFormat(text) ==
    LET t == trim(text)
    IN  \E c \in 3..Len(t) :
            /\ t[1] = "[" /\ t[c] = ","
            /\ \A i \in 2..(c - 1) : t[i] # "\n"
            /\ \E w \in 0..(Len(t) - c) :
                   /\ \A i \in (c + 1)..(c + w) : IsSpace(t[i])
                   /\ \E r \in (c + w + 2)..Len(t) :
                          t[r] = "]" /\ \A i \in (c + w + 1)..(r - 1) : t[i] # "\n"

RECURSIVE Str(_)
\* The string a character sequence spells.
Str(chars) == IF chars = <<>> THEN "" ELSE Head(chars) \o Str(Tail(chars))

UpperChars ==
    <<"A", "B", "C", "D", "E", "F", "G", "H", "I", "J", "K", "L", "M",
      "N", "O", "P", "Q", "R", "S", "T", "U", "V", "W", "X", "Y", "Z">>

LowerChars ==
    <<"a", "b", "c", "d", "e", "f", "g", "h", "i", "j", "k", "l", "m",
      "n", "o", "p", "q", "r", "s", "t", "u", "v", "w", "x", "y", "z">>

\* String.prototype.toLowerCase.
toLowerCase(chars) ==
    [i \in DOMAIN chars |-> IF indexOf(UpperChars, chars[i]) # 0
                            THEN LowerChars[indexOf(UpperChars, chars[i])] ELSE chars[i]]

\* ------------------------------------------------------- fitting helpers

createEmptySlots(count) == [i \in 1..count |-> Null]

getSlotArrayKey(slotType) ==
    CASE slotType = "high" -> "high_slots"
      [] slotType = "mid" -> "mid_slots"
      [] slotType = "low" -> "low_slots"
      [] slotType = "rig" -> "rig_slots"
      [] slotType = "subsystem" -> "subsystem_slots"
      [] OTHER -> "none"

createEmptyFitting(id, ship, highSlots, midSlots, lowSlots, rigSlots) ==
    [id |-> id, name |-> "New Fitting", description |-> "",
     ship_type_id |-> ship.type_id, ship_name |-> ship.name,
     high_slots |-> createEmptySlots(highSlots),
     mid_slots |-> createEmptySlots(midSlots),
     low_slots |-> createEmptySlots(lowSlots),
     rig_slots |-> createEmptySlots(rigSlots),
     subsystem_slots |-> createEmptySlots(0),
     drones |-> <<>>, cargo |-> <<>>]

\* generateId for a fitting: an id no stored fitting has (a fresh UUID); the
\* least such number stands for it.
generateId(used) == CHOOSE i \in 1..(Cardinality(used) + 1) :
                       i \notin used /\ \A j \in 1..(i - 1) : j \in used

\* buildModuleData of the module search: the flattened type data of the
\* picked search result, passive when the active slot is a rig or subsystem.
buildModuleData(type, slotType) ==
    [type_id |-> type.type_id, name |-> type.name,
     state |-> IF slotType = "rig" \/ slotType = "subsystem" THEN "passive" ELSE "active",
     attributes |-> type.attrs, effects |-> type.effects, charge |-> Null]

\* { ...moduleData, slot_type, slot_index }: the module instance placed.
PlacedModule(moduleData, slotType, index) ==
    [type_id |-> moduleData.type_id, name |-> moduleData.name, state |-> moduleData.state,
     attributes |-> moduleData.attributes, effects |-> moduleData.effects,
     charge |-> moduleData.charge, slot_type |-> slotType, slot_index |-> index]

\* The slot array of a category, and the fitting with that array replaced.
Slots(f, slotType) ==
    CASE slotType = "high" -> f.high_slots
      [] slotType = "mid" -> f.mid_slots
      [] slotType = "low" -> f.low_slots
      [] slotType = "rig" -> f.rig_slots
      [] OTHER -> f.subsystem_slots

WithSlots(f, slotType, arr) ==
    CASE slotType = "high" -> [f EXCEPT !.high_slots = arr]
      [] slotType = "mid" -> [f EXCEPT !.mid_slots = arr]
      [] slotType = "low" -> [f EXCEPT !.low_slots = arr]
      [] slotType = "rig" -> [f EXCEPT !.rig_slots = arr]
      [] OTHER -> [f EXCEPT !.subsystem_slots = arr]

\* getSlotTypeFromEffects: the slot category the search result carries.
getSlotTypeFromEffects(effectIds) ==
    IF EFFECT_HI_POWER \in effectIds THEN "high"
    ELSE IF EFFECT_MED_POWER \in effectIds THEN "mid"
    ELSE IF EFFECT_LO_POWER \in effectIds THEN "low"
    ELSE IF EFFECT_RIG_SLOT \in effectIds THEN "rig"
    ELSE IF EFFECT_SUBSYSTEM \in effectIds THEN "subsystem"
    ELSE "none"

\* The filter of the module search: a result is offered for the active slot
\* when its detected slot category is the slot's.
SearchOffers(type, slotType) ==
    IF type.category_id = CATEGORY_DRONE THEN slotType = "drone"
    ELSE getSlotTypeFromEffects(type.effects) = slotType

\* ------------------------------------------------------------------ bounds

\* The number of user edits a state may hold at once (see Weight).
MaxWeight == 2

\* The number of items an EFT option record holds besides the plain item that
\* opens each of its filled categories.
MaxEftItems == 1

\* The length of the header texts given to the parser.
MaxTextLen == 5

\* The number of lines after the header in the texts of the section runs,
\* and the number of one-line groups in the texts that fill every category.
MaxBodyLines == 5

MaxGroups == 8

\* The number of distinct module types of the fitting a plan is built for.
MaxPlanModules == 2

\* Base stat values of the skill bonus runs go up to 20 * MaxBase.
MaxBase == 2

\* The short simulation windows of the capacitor runs, in seconds, next to
\* the default window.
MaxWindow == 2

\* The highest character id a session or a path carries.
MaxCharacterId == 2

\* The source indices the single-slot operations are tried on.
SlotIndices == {0, 1}


\* The names and descriptions typed into the header, the charges loaded, the
\* skill maps a character can have.
FitNames == {"Alpha"}

Descriptions == {"notes"}

Charges == {[type_id |-> 185, name |-> "EMP"]}

SkillMaps == {[levels |-> [id \in {SKILL_CPU_MANAGEMENT} |-> 3]]}

SkillModes == {"none", "allV", "mySkills"}

\* ------------------------------------------------------------ model size

RECURSIVE ModWeight(_)
\* Edits held by a list of modules: one per module, one more for a charge and
\* one more for a state other than the one the module was placed with.
ModWeight(mods) ==
    IF mods = <<>> THEN 0
    ELSE 1 + (IF Head(mods).charge # Null THEN 1 ELSE 0)
           + (IF Head(mods).state # (IF Head(mods).slot_type \in {"rig", "subsystem"}
                                     THEN "passive" ELSE "active") THEN 1 ELSE 0)
           + ModWeight(Tail(mods))

FitWeight(f) ==
    IF f = Null THEN 0
    ELSE ModWeight(allFittedModules(f)) + ModWeight(f.drones)
         + (IF f.name # "New Fitting" THEN 1 ELSE 0)
         + (IF f.description # "" THEN 1 ELSE 0)

\* A fitting that an earlier session saved: a Rifter with a gun, switched to
\* passive, in its first high slot.
EarlierFitting ==
    LET f == createEmptyFitting(0, Rifter, 3, 1, 0, RIG_SLOTS)
        gun == [PlacedModule(buildModuleData(Turret, "high"), "high", 0)
                    EXCEPT !.state = "passive"]
    IN  [f EXCEPT !.high_slots[1] = gun]

RECURSIVE StoredWeight(_, _)
\* The k-th stored fitting weighs k + 1, plus the edits it holds; a fitting
\* left as the earlier session saved it weighs nothing.
StoredWeight(index, items) ==
    IF index = <<>> THEN 0
    ELSE (IF items[Head(index)] = EarlierFitting THEN 0
          ELSE Len(index) + 1 + FitWeight(items[Head(index)]))
         + StoredWeight(Tail(index), items)

\* The user edits a state holds: those of the open fitting, those of the
\* stored fittings, a loaded skill map and a skill mode other than the
\* initial one.
Weight(f, st, map, mode) ==
    FitWeight(f) + StoredWeight(st.index, st.items) + (IF map = Null THEN 0 ELSE 1)
    + (IF mode = "allV" THEN 0 ELSE 1)

\* An edit is explored when it leaves the state within MaxWeight.  Replacing
\* the open fitting (a new ship, an import, a load) is always explored, and
\* so is every edit of the racks of one ship when these are explored on
\* their own (calcPc = "racks").
Within(f, st, map, mode) == calcPc = "racks" \/ Weight(f, st, map, mode) <= MaxWeight

\* ------------------------------------------------------------ store: Init


\* The state create() builds; localStorage is empty and loadSkillMode finds
\* no stored mode.
StoreInit ==
    /\ fitting = Null
    /\ shipType = Null
    /\ stats = Null
    /\ skillDeltas = Null
    /\ skillMode = "allV"
    /\ skillMap = Null
    /\ dirty = FALSE
    /\ storage = [index |-> <<>>, items |-> <<>>]
    /\ lastOp = "init"

CodecOff ==
    /\ rtOpts = Null
    /\ rtText = <<>>
    /\ rtParsed = Null
    /\ rtPc = "off"

PlanOff ==
    /\ planInput = Null
    /\ allReqs = <<>>
    /\ visited = {}
    /\ tasks = <<>>
    /\ skillNames = {}
    /\ plan = Null
    /\ planPc = "off"
    /\ fetchCount = <<>>

CalcOff ==
    /\ calcArgs = Null
    /\ calcResult = Null
    /\ calcPc = "off"

Init == StoreInit /\ CodecOff /\ PlanOff /\ CalcOff

StoredIds == {storage.index[i] : i \in DOMAIN storage.index}

\* --------------------------------------------------------- store: actions

\* ShipSelector.handleSelect -> setShip(shipType, slotCounts).
SetShip(ship) ==
    LET f == createEmptyFitting(generateId(StoredIds), ship,
                                Min(shipAttr(ship, ATTR_HI_SLOTS, 8), SLOT_CAP),
                                Min(shipAttr(ship, ATTR_MED_SLOTS, 5), SLOT_CAP),
                                Min(shipAttr(ship, ATTR_LOW_SLOTS, 5), SLOT_CAP),
                                RIG_SLOTS)
        r == computeStatsWithSkills(ship, f, skillMode, skillMap)
    IN  /\ fitting' = f
        /\ shipType' = ship
        /\ stats' = r.stats
        /\ skillDeltas' = r.skillDeltas
        /\ dirty' = FALSE
        /\ lastOp' = "setShip"
        /\ UNCHANGED <<codecVars, planVars, calcVars>>
        /\ UNCHANGED <<skillMode, skillMap, storage>>

clearShip ==
    /\ fitting' = Null
    /\ shipType' = Null
    /\ stats' = Null
    /\ skillDeltas' = Null
    /\ dirty' = FALSE
    /\ lastOp' = "clearShip"
    /\ calcResult' = IF calcPc = "ui" THEN [calcResult EXCEPT !.activeSlot = Null]
                     ELSE calcResult
    /\ UNCHANGED <<codecVars, planVars, calcArgs, calcPc>>
    /\ UNCHANGED <<skillMode, skillMap, storage>>

setFitName(name) ==
    /\ fitting # Null
    /\ name # fitting.name
    /\ Within([fitting EXCEPT !.name = name], storage, skillMap, skillMode)
    /\ fitting' = [fitting EXCEPT !.name = name]
    /\ dirty' = TRUE
    /\ lastOp' = "setFitName"
    /\ UNCHANGED <<codecVars, planVars, calcVars>>
    /\ UNCHANGED <<shipType, stats, skillDeltas, skillMode, skillMap, storage>>

setDescription(desc) ==
    /\ fitting # Null
    /\ desc # fitting.description
    /\ Within([fitting EXCEPT !.description = desc], storage, skillMap, skillMode)
    /\ fitting' = [fitting EXCEPT !.description = desc]
    /\ dirty' = TRUE
    /\ lastOp' = "setDescription"
    /\ UNCHANGED <<codecVars, planVars, calcVars>>
    /\ UNCHANGED <<shipType, stats, skillDeltas, skillMode, skillMap, storage>>

\* ----------------------------------------------------- localStorage

\* saveFittingToLocal: the item under the fitting's id, and the id appended
\* to the index when it is not there.
saveFittingToLocal(st, f) ==
    [index |-> IF f.id \in {st.index[i] : i \in DOMAIN st.index}
               THEN st.index ELSE Append(st.index, f.id),
     items |-> [k \in DOMAIN st.items \cup {f.id} |-> IF k = f.id THEN f ELSE st.items[k]]]

\* deleteFittingFromLocal: the item removed and the id filtered from the index.
deleteFittingFromLocal(st, id) ==
    [index |-> SelectSeq(st.index, LAMBDA k : k # id),
     items |-> [k \in DOMAIN st.items \ {id} |-> st.items[k]]]

\* A set() that also writes the fitting to localStorage.
setState_persists(st, updated) == saveFittingToLocal(st, updated)

\* localStorage after set({ fitting: updated, ... }): the store is created
\* without a persisting middleware, and set() changes the state in memory
\* only.
setState(st, updated) == st

\* The tail every module and drone mutation shares: store the updated
\* fitting with the stats recomputed for it, and mark it dirty.
CommitStore(updated, op) ==
    LET r == computeStatsWithSkills(shipType, updated, skillMode, skillMap)
    IN  /\ Within(updated, storage, skillMap, skillMode)
        /\ fitting' = updated
        /\ stats' = r.stats
        /\ skillDeltas' = r.skillDeltas
        /\ dirty' = TRUE
        /\ storage' = setState(storage, updated)
        /\ lastOp' = op
        /\ UNCHANGED <<codecVars, planVars>>
        /\ UNCHANGED <<shipType, skillMode, skillMap>>

\* A mutation called on its own: nothing outside the store changes.
Commit(updated, op) == CommitStore(updated, op) /\ UNCHANGED calcVars

\* A placement that grows the array instead of writing into it.
addModuleSlots_appends(slots, slotType, index, moduleData) ==
    Append(slots, PlacedModule(moduleData, slotType, Len(slots)))

\* The slot array after slots[index] = { ...moduleData, slot_type, slot_index }.
addModuleSlots(slots, slotType, index, moduleData) ==
    [slots EXCEPT ![index + 1] = PlacedModule(moduleData, slotType, index)]

\* A placement that does not look at the bounds of the array.
indexOutside_never(index, slots) == FALSE

\* if (index < 0 || index >= slots.length) return;
indexOutside(index, slots) == index < 0 \/ index >= Len(slots)

\* addModule(slotType, index, moduleData) on the fitting the store holds
\* when it is called.
addModuleCall(slotType, index, type) ==
    /\ fitting # Null /\ shipType # Null
    /\ SearchOffers(type, slotType)
    /\ getSlotArrayKey(slotType) # "none"
    /\ ~indexOutside(index, Slots(fitting, slotType))
    /\ LET updated == WithSlots(fitting, slotType,
                          addModuleSlots(Slots(fitting, slotType), slotType, index,
                                         buildModuleData(type, slotType)))
       IN  CommitStore(updated, "addModule")

\* ModuleSearch.handleSelect -> addModule(slotType, index, moduleData).
addModule(slotType, index, type) ==
    addModuleCall(slotType, index, type) /\ UNCHANGED calcVars

\* A fill that does not count the modules already fitted.
hardpointsUsed_none(slots, isTurret, isLauncher) == 0

\* The first loop of fillSlots: the fitted modules of the array that use
\* the hardpoint kind of the module being filled in.
RECURSIVE hardpointsUsed(_, _, _)
hardpointsUsed(slots, isTurret, isLauncher) ==
    IF slots = <<>> THEN 0
    ELSE (IF Head(slots) = Null THEN 0
          ELSE (IF isTurret /\ EFFECT_TURRET_FITTED \in modEffects(Head(slots)) THEN 1 ELSE 0)
               + (IF isLauncher /\ EFFECT_LAUNCHER_FITTED \in modEffects(Head(slots)) THEN 1 ELSE 0))
         + hardpointsUsed(Tail(slots), isTurret, isLauncher)

\* A fill loop that stops one module late.
fillMayPlace_oneLate(hardpoint, count, hardpointLimit) ==
    ~(hardpoint /\ count > hardpointLimit)

\* May the fill loop place one more module when `count` hardpoints are taken?
\* (the negation of the loop's break condition).
fillMayPlace(hardpoint, count, hardpointLimit) ==
    ~(hardpoint /\ count >= hardpointLimit)

\* A fill loop that writes over the modules it meets.
slotIsTaken_never(slot) == FALSE

\* if (slots[i] !== null) continue;
slotIsTaken(slot) == slot # Null

\* The second loop of fillSlots from source index i on; `filled` counts the
\* modules placed so far.  Answers the array and the count.
RECURSIVE fillLoop(_, _, _, _, _, _, _, _)
fillLoop(slots, i, filled, slotType, moduleData, hardpoint, used, hardpointLimit) ==
    IF i >= Len(slots) THEN [slots |-> slots, filled |-> filled]
    ELSE IF slotIsTaken(slots[i + 1])
         THEN fillLoop(slots, i + 1, filled, slotType, moduleData, hardpoint, used, hardpointLimit)
    ELSE IF ~fillMayPlace(hardpoint, used + filled, hardpointLimit)
         THEN [slots |-> slots, filled |-> filled]
    ELSE fillLoop([slots EXCEPT ![i + 1] = PlacedModule(moduleData, slotType, i)],
                  i + 1, filled + 1, slotType, moduleData, hardpoint, used, hardpointLimit)

\* The hardpoint limit fillSlots applies to a module.
hardpointLimitOf(st, slots, isTurret, isLauncher) ==
    IF isTurret THEN st.turret_hardpoints
    ELSE IF isLauncher THEN st.launcher_hardpoints
    ELSE Len(slots)

\* The result of the two loops of fillSlots on the open fitting.
fillResult(slotType, moduleData) ==
    LET slots == Slots(fitting, slotType)
        isTurret == EFFECT_TURRET_FITTED \in moduleData.effects
        isLauncher == EFFECT_LAUNCHER_FITTED \in moduleData.effects
    IN  fillLoop(slots, 0, 0, slotType, moduleData, isTurret \/ isLauncher,
                 hardpointsUsed(slots, isTurret, isLauncher),
                 hardpointLimitOf(stats, slots, isTurret, isLauncher))

\* A fill that goes on to set() whatever it placed.
fillReturnsEarly_never(filled) == FALSE

\* if (filled === 0) return;
fillReturnsEarly(filled) == filled = 0

\* ModuleSearch.handleDoubleClick -> fillSlots(slotType, moduleData).
fillSlots(slotType, type) ==
    /\ fitting # Null /\ shipType # Null /\ stats # Null
    /\ SearchOffers(type, slotType)
    /\ LET r == fillResult(slotType, buildModuleData(type, slotType))
       IN  /\ ~fillReturnsEarly(r.filled)
           /\ Commit(WithSlots(fitting, slotType, r.slots), "fillSlots")

\* SlotItem.handleRightClick -> removeModule(slotType, index): the handler
\* calls the store only for a slot that holds a module.
removeModule(slotType, index) ==
    /\ fitting # Null /\ shipType # Null
    /\ ~(index < 0 \/ index >= Len(Slots(fitting, slotType)))
    /\ Slots(fitting, slotType)[index + 1] # Null
    /\ Commit(WithSlots(fitting, slotType, [Slots(fitting, slotType) EXCEPT ![index + 1] = Null]),
              "removeModule")

\* A toggle that only switches between active and passive.
nextState_twoStates(state) == IF state = "active" THEN "passive" ELSE "active"

\* cycle[(cycle.indexOf(state) + 1) % 3] over cycle = active, passive, offline.
nextState(state) ==
    CASE state = "active" -> "passive"
      [] state = "passive" -> "offline"
      [] OTHER -> "active"

\* SlotItem.handleStateToggle -> toggleModuleState(slotType, index): the
\* handler calls the store only for a fitted module outside rig and
\* subsystem slots.
toggleModuleState(slotType, index) ==
    /\ slotType # "rig" /\ slotType # "subsystem"
    /\ fitting # Null /\ shipType # Null
    /\ index + 1 \in DOMAIN Slots(fitting, slotType)
    /\ Slots(fitting, slotType)[index + 1] # Null
    /\ LET updated == WithSlots(fitting, slotType,
                          [Slots(fitting, slotType) EXCEPT ![index + 1].state = nextState(@)])
       IN  Commit(updated, "toggleModuleState")

\* A charge loaded into every module of the rack.
withCharge_wholeRack(slots, index, charge) ==
    [i \in DOMAIN slots |-> IF slots[i] = Null THEN Null
                            ELSE [slots[i] EXCEPT !.charge = charge]]

\* mod.charge = charge on the module at the index.
withCharge(slots, index, charge) == [slots EXCEPT ![index + 1].charge = charge]

setModuleCharge(slotType, index, charge) ==
    /\ fitting # Null /\ shipType # Null
    /\ index + 1 \in DOMAIN Slots(fitting, slotType)
    /\ Slots(fitting, slotType)[index + 1] # Null
    /\ LET updated == WithSlots(fitting, slotType,
                          withCharge(Slots(fitting, slotType), index, charge))
       IN  Commit(updated, "setModuleCharge")

\* addDrone(droneData) on the fitting the store holds when it is called.
addDroneCall(type) ==
    /\ fitting # Null /\ shipType # Null
    /\ SearchOffers(type, "drone")
    /\ LET updated == [fitting EXCEPT !.drones =
                          Append(@, PlacedModule(buildModuleData(type, "drone"), "drone", Len(@)))]
       IN  CommitStore(updated, "addDrone")

\* ModuleSearch.handleSelect with the drone bay active -> addDrone(droneData).
addDrone(type) == addDroneCall(type) /\ UNCHANGED calcVars

\* A removal that leaves the remaining drones their old indices.
spliceDrones_keepsIndices(drones, index) ==
    IF index >= Len(drones) THEN drones
    ELSE [i \in 1..(Len(drones) - 1) |-> IF i <= index THEN drones[i] ELSE drones[i + 1]]

\* drones.splice(index, 1) followed by the re-index.
spliceDrones(drones, index) ==
    LET kept == [i \in 1..(Len(drones) - 1) |-> IF i <= index THEN drones[i] ELSE drones[i + 1]]
    IN  IF index >= Len(drones) THEN drones
        ELSE [i \in DOMAIN kept |-> [kept[i] EXCEPT !.slot_index = i - 1]]

removeDrone(index) ==
    /\ fitting # Null /\ shipType # Null
    /\ fitting.drones # <<>>
    /\ Commit([fitting EXCEPT !.drones = spliceDrones(@, index)],
              "removeDrone")

\* ----------------------------------------------------- store: persistence

saveFitting ==
    /\ fitting # Null
    /\ Within(fitting, saveFittingToLocal(storage, fitting), skillMap, skillMode)
    /\ storage' = saveFittingToLocal(storage, fitting)
    /\ dirty' = FALSE
    /\ lastOp' = "saveFitting"
    /\ UNCHANGED <<codecVars, planVars, calcVars>>
    /\ UNCHANGED <<fitting, shipType, stats, skillDeltas, skillMode, skillMap>>

\* loadFitting(id): only the fitting and the dirty flag are set.
loadFitting(id) ==
    /\ id \in DOMAIN storage.items
    /\ fitting' = storage.items[id]
    /\ dirty' = FALSE
    /\ lastOp' = "loadFitting"
    /\ UNCHANGED <<codecVars, planVars, calcVars>>
    /\ UNCHANGED <<shipType, stats, skillDeltas, skillMode, skillMap, storage>>

deleteFitting(id) ==
    /\ storage' = deleteFittingFromLocal(storage, id)
    /\ lastOp' = "deleteFitting"
    /\ UNCHANGED <<codecVars, planVars, calcVars>>
    /\ UNCHANGED <<fitting, shipType, stats, skillDeltas, skillMode, skillMap, dirty>>

\* importFitting(fitting, shipType), the common end of both import paths.
importFitting(f, ship, op) ==
    LET r == computeStatsWithSkills(ship, f, skillMode, skillMap)
    IN  /\ fitting' = f
        /\ shipType' = ship
        /\ stats' = r.stats
        /\ skillDeltas' = r.skillDeltas
        /\ dirty' = FALSE
        /\ lastOp' = op
        /\ UNCHANGED <<codecVars, planVars, calcVars>>
        /\ UNCHANGED <<skillMode, skillMap, storage>>

\* ---------------------------------------------------------- store: skills

\* A change of the skills that marks the fitting as edited.
dirtyAfterSkillChange_marks(flag) == TRUE

\* set({ skillMode, stats, skillDeltas }) and set({ skillMap, stats,
\* skillDeltas }) carry no dirty key: the flag stays what it was.
dirtyAfterSkillChange(flag) == flag

setSkillMode(mode) ==
    /\ mode # skillMode
    /\ Within(fitting, storage, skillMap, mode)
    /\ skillMode' = mode
    /\ IF fitting = Null \/ shipType = Null
       THEN /\ skillDeltas' = Null
            /\ UNCHANGED stats
       ELSE LET r == computeStatsWithSkills(shipType, fitting, mode, skillMap)
            IN  /\ stats' = r.stats
                /\ skillDeltas' = r.skillDeltas
    /\ lastOp' = "setSkillMode"
    /\ dirty' = dirtyAfterSkillChange(dirty)
    /\ UNCHANGED <<codecVars, planVars, calcVars>>
    /\ UNCHANGED <<fitting, shipType, skillMap, storage>>

\* SkillModeWatcher -> setMySkills(skills): called with the fetched skills
\* while the mode is mySkills.
setMySkills(skills) ==
    /\ skillMode = "mySkills"
    /\ Within(fitting, storage, skills, skillMode)
    /\ skillMap' = skills
    /\ IF fitting = Null \/ shipType = Null
       THEN UNCHANGED <<stats, skillDeltas>>
       ELSE LET r == computeStatsWithSkills(shipType, fitting, skillMode, skills)
            IN  /\ stats' = r.stats
                /\ skillDeltas' = r.skillDeltas
    /\ lastOp' = "setMySkills"
    /\ dirty' = dirtyAfterSkillChange(dirty)
    /\ UNCHANGED <<codecVars, planVars, calcVars>>
    /\ UNCHANGED <<fitting, shipType, skillMode, storage>>

\* ------------------------------------------------------ ESI fitting import

\* ESI_FLAG_TO_SLOT: a flag is a prefix and a number; the table holds the
\* five slot prefixes with the numbers 0..7.
EsiFlagPrefixes == {"HiSlot", "MedSlot", "LoSlot", "RigSlot", "SubSystemSlot"}

EsiFlagKnown(flag) == flag.prefix \in EsiFlagPrefixes /\ flag.n \in 0..7

ESI_FLAG_TO_SLOT(flag) ==
    [slotType |-> CASE flag.prefix = "HiSlot" -> "high"
                    [] flag.prefix = "MedSlot" -> "mid"
                    [] flag.prefix = "LoSlot" -> "low"
                    [] flag.prefix = "RigSlot" -> "rig"
                    [] OTHER -> "subsystem",
     index |-> flag.n]

\* getType succeeds for the types the provider knows.
KnownTypeIds == {t.type_id : t \in AllTypes}

\* getModuleSlotType: drone by category, else by the slot effects.
getModuleSlotType(typeId) ==
    IF TypeById(typeId).category_id = CATEGORY_DRONE THEN "drone"
    ELSE getSlotTypeFromEffects(TypeById(typeId).effects)

\* slotArray.findIndex(s => s === null), -1 when there is none.
findEmpty(slots) ==
    IF \E i \in DOMAIN slots : slots[i] = Null
    THEN (CHOOSE i \in DOMAIN slots : slots[i] = Null /\ \A j \in 1..(i - 1) : slots[j] # Null) - 1
    ELSE -1

\* The module record the converter builds for an item: always active, with
\* no attributes and no effects.
esiModule(typeId, slotType, index) ==
    [type_id |-> typeId, name |-> TypeById(typeId).name, state |-> "active",
     attributes |-> <<>>, effects |-> {}, charge |-> Null,
     slot_type |-> slotType, slot_index |-> index]

\* One pass of the item loop of esiFittingToLocal.
esiPlaceItem(f, item) ==
    IF item.type_id \notin KnownTypeIds THEN f
    ELSE IF EsiFlagKnown(item.flag)
    THEN LET info == ESI_FLAG_TO_SLOT(item.flag)
             arr == Slots(f, info.slotType)
             nextIdx == findEmpty(arr)
         IN  IF info.index < Len(arr)
             THEN WithSlots(f, info.slotType,
                      [arr EXCEPT ![info.index + 1] = esiModule(item.type_id, info.slotType, info.index)])
             ELSE IF nextIdx # -1
             THEN WithSlots(f, info.slotType,
                      [arr EXCEPT ![nextIdx + 1] = esiModule(item.type_id, info.slotType, nextIdx)])
             ELSE f
    ELSE LET detectedSlot == getModuleSlotType(item.type_id)
             arr == Slots(f, detectedSlot)
             nextIdx == findEmpty(arr)
         IN  IF detectedSlot # "none" /\ detectedSlot # "drone" /\ nextIdx # -1
             THEN WithSlots(f, detectedSlot,
                      [arr EXCEPT ![nextIdx + 1] = esiModule(item.type_id, detectedSlot, nextIdx)])
             ELSE f

RECURSIVE esiPlaceItems(_, _)
esiPlaceItems(f, items) ==
    IF items = <<>> THEN f ELSE esiPlaceItems(esiPlaceItem(f, Head(items)), Tail(items))

esiFittingToLocal(esiFit, ship, id) ==
    esiPlaceItems([id |-> id, name |-> esiFit.name, description |-> esiFit.description,
                   ship_type_id |-> esiFit.ship_type_id, ship_name |-> ship.name,
                   high_slots |-> createEmptySlots(Min(shipAttr(ship, ATTR_HI_SLOTS, 8), SLOT_CAP)),
                   mid_slots |-> createEmptySlots(Min(shipAttr(ship, ATTR_MED_SLOTS, 5), SLOT_CAP)),
                   low_slots |-> createEmptySlots(Min(shipAttr(ship, ATTR_LOW_SLOTS, 5), SLOT_CAP)),
                   rig_slots |-> createEmptySlots(RIG_SLOTS),
                   subsystem_slots |-> <<>>, drones |-> <<>>, cargo |-> <<>>],
                  esiFit.items)

EsiItem(prefix, n, typeId) == [flag |-> [prefix |-> prefix, n |-> n], type_id |-> typeId, quantity |-> 1]

\* The fittings the character has saved in game.
EsiFittings ==
    {[name |-> "Scout", description |-> "", ship_type_id |-> Rifter.type_id,
      items |-> <<EsiItem("HiSlot", 0, Turret.type_id), EsiItem("RigSlot", 0, Trimark.type_id)>>],
     [name |-> "Brawl", description |-> "", ship_type_id |-> Stabber.type_id,
      items |-> <<EsiItem("HiSlot", 5, Launcher.type_id), EsiItem("LoSlot", 0, Plate.type_id),
                  EsiItem("DroneBay", 0, Drone.type_id), EsiItem("Cargo", 0, 9999)>>]}

\* MyFittingsPanel.handleLoad: getType, esiFittingToLocal, importFitting.
ImportESI(esiFit) ==
    /\ esiFit.ship_type_id \in KnownTypeIds
    /\ importFitting(esiFittingToLocal(esiFit, TypeById(esiFit.ship_type_id), generateId(StoredIds)),
                     TypeById(esiFit.ship_type_id),
                     "importESI")

\* --------------------------------------------------------- EFT text import

\* resolveNames: the ids the provider answers for lower-cased names.
NameIds ==
    [n \in {"rifter", "stabber", "gun", "tube", "plate", "trimark", "warrior"} |->
        CASE n = "rifter" -> Rifter.type_id
          [] n = "stabber" -> Stabber.type_id
          [] n = "gun" -> Turret.type_id
          [] n = "tube" -> Launcher.type_id
          [] n = "plate" -> Plate.type_id
          [] n = "trimark" -> Trimark.type_id
          [] OTHER -> Drone.type_id]

\* nameMap.get(name.toLowerCase()): 0 stands for undefined.
nameMapGet(name) ==
    IF Str(toLowerCase(name)) \in DOMAIN NameIds THEN NameIds[Str(toLowerCase(name))] ELSE 0

RECURSIVE resolveModules(_, _, _)
\* resolveModules of the import dialog: `modules` holds those built so far.
resolveModules(lines, slotType, modules) ==
    IF lines = <<>> THEN modules
    ELSE IF nameMapGet(Head(lines).name) = 0
    THEN resolveModules(Tail(lines), slotType, modules)
    ELSE LET modType == TypeById(nameMapGet(Head(lines).name))
         IN  resolveModules(Tail(lines), slotType,
                 Append(modules,
                        [type_id |-> modType.type_id, name |-> modType.name,
                         state |-> IF slotType = "rig" \/ slotType = "subsystem"
                                   THEN "passive" ELSE "active",
                         attributes |-> modType.attrs, effects |-> modType.effects,
                         charge |-> Null,
                         slot_type |-> slotType, slot_index |-> Len(modules)]))

\* createEmptySlots(count) with mods[i] stored at i and slot_index set to i.
rackOf(mods, count) ==
    [i \in 1..count |-> IF i <= Len(mods) THEN [mods[i] EXCEPT !.slot_index = i - 1] ELSE Null]

\* The fitting handleImport builds from a parsed text and its ship.
eftFitting(parsed, ship, id) ==
    LET highMods == resolveModules(parsed.highSlots, "high", <<>>)
        midMods == resolveModules(parsed.midSlots, "mid", <<>>)
        lowMods == resolveModules(parsed.lowSlots, "low", <<>>)
        rigMods == resolveModules(parsed.rigSlots, "rig", <<>>)
    IN  [id |-> id, name |-> Str(parsed.fitName), description |-> "",
         ship_type_id |-> ship.type_id, ship_name |-> ship.name,
         high_slots |-> rackOf(highMods, Max(Len(highMods), EFT_MIN_HIGH)),
         mid_slots |-> rackOf(midMods, Max(Len(midMods), EFT_MIN_MID)),
         low_slots |-> rackOf(lowMods, Max(Len(lowMods), EFT_MIN_LOW)),
         rig_slots |-> rackOf(rigMods, Max(Len(rigMods), EFT_MIN_RIG)),
         subsystem_slots |-> <<>>,
         drones |-> resolveModules(parsed.drones, "drone", <<>>),
         cargo |-> <<>>]

\* EFTImportModal.handleImport on a text the format check lets through and
\* whose parse is `parsed`: the checks that end the import early, then
\* importFitting.
ImportEFT(text, parsed) ==
    /\ parsed.ok
    /\ nameMapGet(parsed.shipName) # 0
    /\ TypeById(nameMapGet(parsed.shipName)).category_id = CATEGORY_SHIP
    /\ importFitting(eftFitting(parsed, TypeById(nameMapGet(parsed.shipName)),
                                generateId(StoredIds)),
                     TypeById(nameMapGet(parsed.shipName)), "importEFT")

\* The texts pasted into the import dialog.
EftTextRifter ==
    join(<<<<"[", "R", "i", "f", "t", "e", "r", ",", " ", "P", "v", "P", "]">>,
           <<"[", "E", "m", "p", "t", "y", " ", "M", "i", "d", " ", "s", "l", "o", "t", "]">>,
           <<>>,
           <<"G", "u", "n">>,
           <<"T", "u", "b", "e">>,
           <<"[", "E", "m", "p", "t", "y", " ", "H", "i", "g", "h", " ", "s", "l", "o", "t", "]">>,
           <<>>,
           <<"T", "r", "i", "m", "a", "r", "k">>>>)

EftTextStabber ==
    join(<<<<"[", "s", "t", "a", "b", "b", "e", "r", ",", " ", "B", "r", "a", "w", "l", "]">>,
           <<"P", "l", "a", "t", "e">>,
           <<>>,
           <<"G", "u", "n">>,
           <<>>,
           <<"T", "u", "b", "e", ",", " ", "a", "m", "m", "o">>,
           <<"T", "u", "b", "e">>,
           <<>>,
           <<"T", "r", "i", "m", "a", "r", "k">>,
           <<>>,
           <<"P", "l", "a", "t", "e">>,
           <<>>,
           <<>>,
           <<"W", "a", "r", "r", "i", "o", "r", " ", "x", "2">>,
           <<"N", "o", "t", "h", "i", "n", "g">>,
           <<"W", "a", "r", "r", "i", "o", "r">>>>)

EftTextNoShip ==
    join(<<<<"[", "G", "u", "n", ",", " ", "O", "o", "p", "s", "]">>,
           <<"P", "l", "a", "t", "e">>>>)

EftTextNoHeader ==
    join(<<<<"[", "R", "i", "f", "t", "e", "r", "]">>,
           <<"G", "u", "n">>>>)

EftTextLight ==
    join(<<<<"[", "R", "i", "f", "t", "e", "r", ",", " ", "N", "e", "w", " ", "F", "i", "t", "t", "i", "n", "g", "]">>,
           <<"G", "u", "n">>>>)

\* A text whose rig section lists four rigs.
EftTextFourRigs ==
    join(<<<<"[", "R", "i", "f", "t", "e", "r", ",", " ", "R", "i", "g", "s", "]">>,
           <<"P", "l", "a", "t", "e">>,
           <<>>,
           <<"P", "l", "a", "t", "e">>,
           <<>>,
           <<"G", "u", "n">>,
           <<>>,
           <<"T", "r", "i", "m", "a", "r", "k">>,
           <<"T", "r", "i", "m", "a", "r", "k">>,
           <<"T", "r", "i", "m", "a", "r", "k">>,
           <<"T", "r", "i", "m", "a", "r", "k">>>>)

EftTexts ==
    {EftTextLight, EftTextRifter, EftTextStabber, EftTextNoShip, EftTextNoHeader,
     EftTextFourRigs}

\* The texts the format check lets through, each with what parseEFT answers.
EftParses ==
    {<<text, parseEFT(text)>> : text \in {t \in EftTexts : trim(t) # <<>> /\ isEFTFormat(t)}}

Next ==
    \/ \E ship \in Ships : SetShip(ship)
    \/ clearShip
    \/ \E name \in FitNames : setFitName(name)
    \/ \E desc \in Descriptions : setDescription(desc)
    \/ \E slotType \in SlotTypes, index \in SlotIndices, type \in ModuleTypes :
           addModule(slotType, index, type)
    \/ \E slotType \in SlotTypes, type \in ModuleTypes : fillSlots(slotType, type)
    \/ \E slotType \in SlotTypes, index \in SlotIndices : removeModule(slotType, index)
    \/ \E slotType \in SlotTypes, index \in SlotIndices : toggleModuleState(slotType, index)
    \/ \E slotType \in SlotTypes, index \in SlotIndices, charge \in Charges :
           setModuleCharge(slotType, index, charge)
    \/ addDrone(Drone)
    \/ \E index \in SlotIndices : removeDrone(index)
    \/ saveFitting
    \/ \E id \in StoredIds : loadFitting(id)
    \/ \E id \in StoredIds : deleteFitting(id)
    \/ \E mode \in SkillModes : setSkillMode(mode)
    \/ \E skills \in SkillMaps : setMySkills(skills)
    \/ \E esiFit \in EsiFittings : ImportESI(esiFit)
    \/ \E tp \in EftParses : ImportEFT(tp[1], tp[2])

Spec == Init /\ [][Next]_vars

\* ------------------------------------------------- store: slots and dialogs
\* The selected slot and the two dialogs, held next to the store's other
\* fields when they are explored (calcPc = "ui").

UiState(activeSlot, moduleSearchOpen, eftImportOpen) ==
    [activeSlot |-> activeSlot, moduleSearchOpen |-> moduleSearchOpen,
     eftImportOpen |-> eftImportOpen]

\* The slot the user interface selects in this exploration.
UiSlots == {[slotType |-> "high", index |-> 0]}

\* A step of the user interface state: nothing else of the store changes.
UiStep(next) ==
    /\ calcPc = "ui"
    /\ calcResult' = next
    /\ UNCHANGED <<calcArgs, calcPc, codecVars, planVars>>
    /\ UNCHANGED <<fitting, shipType, stats, skillDeltas, skillMode, skillMap, dirty, storage,
                   lastOp>>

selectSlot(slot) == UiStep([calcResult EXCEPT !.activeSlot = slot])

clearSlotSelection == UiStep([calcResult EXCEPT !.activeSlot = Null])

\* openModuleSearch(slotType, index), and openModuleSearch() without a slot.
openModuleSearch(slot) ==
    UiStep(IF slot # Null
           THEN [calcResult EXCEPT !.moduleSearchOpen = TRUE, !.activeSlot = slot]
           ELSE [calcResult EXCEPT !.moduleSearchOpen = TRUE])

closeModuleSearch ==
    UiStep([calcResult EXCEPT !.moduleSearchOpen = FALSE, !.activeSlot = Null])

openEFTImport == UiStep([calcResult EXCEPT !.eftImportOpen = TRUE])

closeEFTImport == UiStep([calcResult EXCEPT !.eftImportOpen = FALSE])

UiInit ==
    /\ StoreInit /\ CodecOff /\ PlanOff
    /\ calcArgs = Null
    /\ calcResult = UiState(Null, FALSE, FALSE)
    /\ calcPc = "ui"

UiNext ==
    \/ Next
    \/ \E slot \in UiSlots : selectSlot(slot)
    \/ clearSlotSelection
    \/ \E slot \in UiSlots \cup {Null} : openModuleSearch(slot)
    \/ closeModuleSearch
    \/ openEFTImport
    \/ closeEFTImport

UiSpec == UiInit /\ [][UiNext]_vars

\* ------------------------------------------------- store: overlapping picks
\* handleSelect of the module search: a pick waits for the type data and
\* then calls the store with the slot that was active when the result list
\* was rendered.  Several picks may wait at once and settle in any order.

\* The picks started in one exploration.
MaxPicks == 2

\* The slots the search is opened on.
PickSlots ==
    {[slotType |-> "high", index |-> 0], [slotType |-> "high", index |-> 1],
     [slotType |-> "low", index |-> 0], [slotType |-> "drone", index |-> 0]}

\* The slot is one the racks show.
slotShown(slot) ==
    slot.slotType = "drone" \/ ~indexOutside(slot.index, Slots(fitting, slot.slotType))

\* A handler that reads the active slot from the store when the type data
\* has arrived.
slotOfPick_current(captured, current) == current

\* The activeSlot a handler uses after its await: the value its render
\* captured.
slotOfPick(captured, current) == captured

\* The store with a ship set, the search closed and no pick waiting.
PickInit ==
    /\ \E ship \in Ships :
           LET f == createEmptyFitting(1, ship,
                                       Min(shipAttr(ship, ATTR_HI_SLOTS, 8), SLOT_CAP),
                                       Min(shipAttr(ship, ATTR_MED_SLOTS, 5), SLOT_CAP),
                                       Min(shipAttr(ship, ATTR_LOW_SLOTS, 5), SLOT_CAP),
                                       RIG_SLOTS)
               r == computeStatsWithSkills(ship, f, "allV", Null)
           IN  /\ fitting = f
               /\ shipType = ship
               /\ stats = r.stats
               /\ skillDeltas = r.skillDeltas
    /\ skillMode = "allV"
    /\ skillMap = Null
    /\ dirty = FALSE
    /\ storage = [index |-> <<>>, items |-> <<>>]
    /\ lastOp = "setShip"
    /\ CodecOff /\ PlanOff
    /\ calcArgs = Null
    /\ calcResult = [activeSlot |-> Null, moduleSearchOpen |-> FALSE,
                     eftImportOpen |-> FALSE, waiting |-> {}, settled |-> <<>>]
    /\ calcPc = "ui"

\* A click on a slot of a rack or on the drone bay.
openSearchOn(slot) == slotShown(slot) /\ openModuleSearch(slot)

\* handleSelect up to its await: the pick waits for getType; `n` tells the
\* picks apart by the order they were started in.
handleSelect(type) ==
    /\ calcResult.moduleSearchOpen
    /\ calcResult.activeSlot # Null
    /\ SearchOffers(type, calcResult.activeSlot.slotType)
    /\ Cardinality(calcResult.waiting) + Len(calcResult.settled) < MaxPicks
    /\ UiStep([calcResult EXCEPT
                   !.waiting = @ \cup {[activeSlot |-> calcResult.activeSlot, type |-> type,
                                        n |-> Cardinality(@) + Len(calcResult.settled) + 1]}])

\* handleSelect from its await on: the type data of a waiting pick has
\* arrived, the module goes into the slot of the pick or the drone into
\* the bay, and the search is closed.
placePick(pick) ==
    LET slot == slotOfPick(pick.activeSlot, calcResult.activeSlot)
        after == [calcResult EXCEPT !.waiting = @ \ {pick},
                                     !.settled = Append(@, pick)]
    IN  /\ calcPc = "ui"
        /\ pick \in calcResult.waiting
        /\ UNCHANGED <<calcArgs, calcPc>>
        /\ IF slot = Null
           THEN /\ calcResult' = after
                /\ UNCHANGED <<storeVars, codecVars, planVars>>
           ELSE /\ calcResult' = [after EXCEPT !.moduleSearchOpen = FALSE,
                                               !.activeSlot = Null]
                /\ IF slot.slotType = "drone"
                   THEN addDroneCall(pick.type)
                   ELSE addModuleCall(slot.slotType, slot.index, pick.type)

PickNext ==
    \/ \E slot \in PickSlots : openSearchOn(slot)
    \/ \E type \in ModuleTypes \cup {Drone} : handleSelect(type)
    \/ \E pick \in calcResult.waiting : placePick(pick)
    \/ closeModuleSearch

PickSpec == PickInit /\ [][PickNext]_vars

\* The state create() builds in a later session: localStorage holds what an
\* earlier session saved.
SessionInit ==
    /\ fitting = Null
    /\ shipType = Null
    /\ stats = Null
    /\ skillDeltas = Null
    /\ skillMode = "allV"
    /\ skillMap = Null
    /\ dirty = FALSE
    /\ storage = saveFittingToLocal([index |-> <<>>, items |-> <<>>], EarlierFitting)
    /\ lastOp = "init"
    /\ CodecOff /\ PlanOff /\ CalcOff

SessionSpec == SessionInit /\ [][Next]_vars

\* The racks of one ship explored on their own: the store after setShip,
\* and every sequence of placing, filling, removing and toggling from there.
RackInit ==
    /\ \E ship \in Ships :
           LET f == createEmptyFitting(1, ship,
                                       Min(shipAttr(ship, ATTR_HI_SLOTS, 8), SLOT_CAP),
                                       Min(shipAttr(ship, ATTR_MED_SLOTS, 5), SLOT_CAP),
                                       Min(shipAttr(ship, ATTR_LOW_SLOTS, 5), SLOT_CAP),
                                       RIG_SLOTS)
               r == computeStatsWithSkills(ship, f, "allV", Null)
           IN  /\ fitting = f
               /\ shipType = ship
               /\ stats = r.stats
               /\ skillDeltas = r.skillDeltas
    /\ skillMode = "allV"
    /\ skillMap = Null
    /\ dirty = FALSE
    /\ storage = [index |-> <<>>, items |-> <<>>]
    /\ lastOp = "setShip"
    /\ CodecOff /\ PlanOff
    /\ calcArgs = Null
    /\ calcResult = Null
    /\ calcPc = "racks"

\* The categories and indices addModule is called with: those of the slot
\* arrays, the two categories without an array, and an index on either
\* side of every array.
RackCategories == SlotTypes \cup {"drone", "cargo"}

RackIndices == {-1} \cup SlotIndices \cup {RIG_SLOTS}

RackNext ==
    \/ \E slotType \in RackCategories, index \in RackIndices, type \in ModuleTypes \cup {Drone} :
           addModule(slotType, index, type)
    \/ \E slotType \in SlotTypes, type \in ModuleTypes : fillSlots(slotType, type)
    \/ \E slotType \in SlotTypes, index \in SlotIndices : removeModule(slotType, index)
    \/ \E slotType \in SlotTypes, index \in SlotIndices : toggleModuleState(slotType, index)

RackSpec == RackInit /\ [][RackNext]_vars

\* The drones the bay holds when the single-slot edits are explored.
MaxDrones == 1

\* The modules placed when the single-slot edits are explored: one for the
\* high rack, one for the low rack.
SlotModules == {Turret, Plate}

\* The single-slot edits of the racks of one ship, next to a drone bay that
\* fills.
SlotNext ==
    \/ \E slotType \in SlotTypes, index \in SlotIndices, type \in SlotModules :
           addModule(slotType, index, type)
    \/ \E slotType \in SlotTypes, index \in SlotIndices : removeModule(slotType, index)
    \/ \E slotType \in SlotTypes, index \in SlotIndices : toggleModuleState(slotType, index)
    \/ \E slotType \in SlotTypes, index \in SlotIndices, charge \in Charges :
           setModuleCharge(slotType, index, charge)
    \/ Len(fitting.drones) < MaxDrones /\ addDrone(Drone)

SlotSpec == RackInit /\ [][SlotNext]_vars

\* ------------------------------------------------ EFT codec: round trip
\* serializeEFT followed by parseEFT on the text it wrote, for every option
\* record built from a few items.

nameA == <<"a">>

nameB == <<"b">>

nameAx2 == <<"a", " ", "x", "2">>

EftItems ==
    {[name |-> nameA, charge |-> Null, quantity |-> Null],
     [name |-> nameB, charge |-> Some(<<"c">>), quantity |-> Some(2)],
     [name |-> nameA, charge |-> Null, quantity |-> Some(1)],
     [name |-> nameAx2, charge |-> Null, quantity |-> Null]}

\* The category numbers in the order of the text: low, mid, high, rig,
\* subsystems, drones, cargo.
EftCategories == 1..7

\* The ways to hand out at most n items to the categories, one at a time.
EftPlacements(n) == UNION {[1..k -> EftCategories \X EftItems] : k \in 0..n}

\* The items of a category: the plain item when the category is one of the
\* filled ones, then the items the placement gives it, in the order handed
\* out.
PlacedIn(filled, p, cat) ==
    LET mine == SelectSeq(p, LAMBDA e : e[1] = cat)
    IN  (IF cat \in filled THEN <<[name |-> nameA, charge |-> Null, quantity |-> Null]>> ELSE <<>>)
        \o [i \in DOMAIN mine |-> mine[i][2]]

\* The slot counts given to the serializer: none, or two for every rack.
EftSlotCounts == {Null, Some(2)}

EftOptions ==
    {[shipName |-> <<"s">>, fitName |-> <<"f">>,
      lowSlots |-> PlacedIn(filled, p, 1), midSlots |-> PlacedIn(filled, p, 2),
      highSlots |-> PlacedIn(filled, p, 3), rigSlots |-> PlacedIn(filled, p, 4),
      subsystems |-> PlacedIn(filled, p, 5), drones |-> PlacedIn(filled, p, 6),
      cargo |-> PlacedIn(filled, p, 7),
      lowSlotCount |-> n, midSlotCount |-> n, highSlotCount |-> n, rigSlotCount |-> n] :
        filled \in SUBSET EftCategories, p \in EftPlacements(MaxEftItems), n \in EftSlotCounts}

EftInit ==
    /\ StoreInit /\ PlanOff /\ CalcOff
    /\ rtOpts \in EftOptions
    /\ rtText = <<>>
    /\ rtParsed = Null
    /\ rtPc = "opts"

Serialize ==
    /\ rtPc = "opts"
    /\ rtText' = serializeEFT(rtOpts)
    /\ rtPc' = "text"
    /\ UNCHANGED <<rtOpts, rtParsed, storeVars, planVars, calcVars>>

Parse ==
    /\ rtPc = "text"
    /\ rtParsed' = parseEFT(rtText)
    /\ rtPc' = "parsed"
    /\ UNCHANGED <<rtOpts, rtText, storeVars, planVars, calcVars>>

EftNext == Serialize \/ Parse

EftSpec == EftInit /\ [][EftNext]_vars

\* ------------------------------------------------- EFT codec: any header
\* parseEFT on every short text over the characters the header pattern
\* tells apart, alone or followed by a module line.

HeaderChars == {"[", "]", ",", " ", "a"}

HeaderTexts == UNION {[1..k -> HeaderChars] : k \in 0..MaxTextLen}

ModuleLines == {<<>>, <<"\n", "a">>}

ParseInit ==
    /\ StoreInit /\ PlanOff /\ CalcOff
    /\ rtOpts = Null
    /\ rtText \in {h \o m : h \in HeaderTexts, m \in ModuleLines}
    /\ rtParsed = Null
    /\ rtPc = "text"

ParseSpec == ParseInit /\ [][Parse]_vars

\* ------------------------------------------------ EFT codec: sections
\* parseEFT on a header followed by blank lines, marker lines and module
\* lines in every order, and on texts of one-line groups that reach past
\* the seventh section.

BodyLines == {<<>>, emptySlotMarker(LabelMid), <<"a">>, <<"b">>}

BodyTexts == UNION {[1..k -> BodyLines] : k \in 0..MaxBodyLines}

\* What stands between two groups: a blank line, two, or blank lines around
\* a marker.
GroupSeparators == {<<<<>>>>, <<<<>>, <<>>>>, <<<<>>, emptySlotMarker(LabelRig), <<>>>>}

RECURSIVE groupLines(_, _)
\* n one-line groups, each after the first preceded by the separator.
groupLines(n, separator) ==
    IF n = 0 THEN <<>>
    ELSE IF n = 1 THEN <<<<"a">>>>
    ELSE groupLines(n - 1, separator) \o separator \o <<<<"b">>>>

GroupTexts == {groupLines(n, separator) : n \in 0..MaxGroups, separator \in GroupSeparators}

SectionHeader == <<"[", "s", ",", "f", "]">>

SectionInit ==
    /\ StoreInit /\ PlanOff /\ CalcOff
    /\ rtOpts = Null
    /\ rtText \in {join(<<SectionHeader>> \o body) : body \in BodyTexts \cup GroupTexts}
    /\ rtParsed = Null
    /\ rtPc = "text"

SectionSpec == SectionInit /\ [][Parse]_vars

\* ------------------------------------------- EFT codec: the format check
\* isEFTFormat and parseEFT applied to the same text, as handleImport
\* applies them: every short header text, alone or followed by a
\* character, by a module line, or by a line that ends in a bracket.

FormatTails == {<<>>, <<"a">>, <<"\n", "a">>, <<"\n", "a", "]">>}

FormatInit ==
    /\ StoreInit /\ PlanOff /\ CalcOff
    /\ rtOpts = Null
    /\ rtText \in {h \o m : h \in HeaderTexts, m \in FormatTails}
    /\ rtParsed = Null
    /\ rtPc = "text"

CheckFormat ==
    /\ rtPc = "text"
    /\ rtParsed' = [looksLikeEFT |-> isEFTFormat(rtText), result |-> parseEFT(rtText)]
    /\ rtPc' = "checked"
    /\ UNCHANGED <<rtOpts, rtText, storeVars, planVars, calcVars>>

FormatSpec == FormatInit /\ [][CheckFormat]_vars

\* ------------------------------------------------------------ skill plan
\* buildSkillPlan as the event loop runs it: the code between two awaits is
\* one step, and the prerequisite resolutions started together take their
\* steps in any order.

Req(skillTypeId, level) == [skill_type_id |-> skillTypeId, level |-> level]

\* The types the provider knows for the plan: a ship, two modules, three
\* skills that require each other (1 -> 3 -> 1, 2 -> 3, 2 -> 2), a module
\* type named as a requirement (4) and the twelve support skills.  `reqs`
\* lists the (skill, level) attribute pairs in the order of SKILL_REQ_ATTRS,
\* `rank` is the place of the name in localeCompare order.
PlanTypes ==
    {[type_id |-> 600, category_id |-> CATEGORY_SHIP, name |-> "Hull", rank |-> 0, reqs |-> <<Req(1, 3), Req(2, 1)>>],
     [type_id |-> 700, category_id |-> CATEGORY_MODULE, name |-> "ModA", rank |-> 0,
      reqs |-> <<Req(2, 5), Req(SKILL_CPU_MANAGEMENT, 2), Req(0, 1)>>],
     [type_id |-> 701, category_id |-> CATEGORY_MODULE, name |-> "ModB", rank |-> 0, reqs |-> <<Req(3, 1), Req(4, 2)>>],
     [type_id |-> 1, category_id |-> CATEGORY_SKILL, name |-> "Gunnery", rank |-> 3, reqs |-> <<Req(3, 4)>>],
     [type_id |-> 2, category_id |-> CATEGORY_SKILL, name |-> "Armor", rank |-> 1, reqs |-> <<Req(3, 1), Req(2, 1)>>],
     [type_id |-> 3, category_id |-> CATEGORY_SKILL, name |-> "Drones", rank |-> 2, reqs |-> <<Req(1, 2), Req(5, 0)>>],
     [type_id |-> 4, category_id |-> CATEGORY_MODULE, name |-> "Hybrid", rank |-> 4, reqs |-> <<Req(1, 5)>>]}
    \cup {[type_id |-> id, category_id |-> CATEGORY_SKILL, name |-> "Support", rank |-> id,
          reqs |-> <<>>] :
             id \in SupportSkillIds}

PlanTypeIds == {t.type_id : t \in PlanTypes}

PlanType(id) == CHOOSE t \in PlanTypes : t.type_id = id

\* A run is fixed by the ship, the distinct module types of the fitting in
\* slot order, and the lookups that fail.
PlanInputs ==
    {[ship |-> 600, modules |-> m, fail |-> f] :
        m \in {q \in UNION {[1..k -> {700, 701, 4, 9999}] : k \in 0..MaxPlanModules} :
                  \A i, j \in DOMAIN q : q[i] = q[j] => i = j},
        f \in {{}, {700}, {1}, {2}, {3}, {SKILL_CPU_MANAGEMENT}}}

\* Does getType(id) throw in this run?
lookupFails(id) == id \in planInput.fail \/ id \notin PlanTypeIds

extractSkillReqs(type) == SelectSeq(type.reqs, LAMBDA r : r.skill_type_id > 0 /\ r.level > 0)

\* A map in which the requirement seen last replaces the level recorded.
keepHighest_lastWins(result, req) ==
    [k \in DOMAIN result \cup {req.skill_type_id} |->
        IF k = req.skill_type_id THEN req.level ELSE result[k]]

\* result.set(id, level) unless a level at least as high is there.
keepHighest(result, req) ==
    IF req.skill_type_id \in DOMAIN result /\ ~(req.level > result[req.skill_type_id])
    THEN result
    ELSE [k \in DOMAIN result \cup {req.skill_type_id} |->
             IF k = req.skill_type_id THEN req.level ELSE result[k]]

RECURSIVE keepHighestAll(_, _)
keepHighestAll(result, reqs) ==
    IF reqs = <<>> THEN result
    ELSE CHOOSE out \in {keepHighestAll(next, rest) :
                            next \in {keepHighest(result, Head(reqs))},
                            rest \in {Tail(reqs)}} : TRUE

RECURSIVE directReqsOf(_, _)
\* Steps 1 of buildSkillPlan over the types fetched.
directReqsOf(result, typeIds) ==
    IF typeIds = <<>> THEN result
    ELSE CHOOSE out \in {directReqsOf(next, rest) :
                            next \in {keepHighestAll(result,
                                                     extractSkillReqs(PlanType(Head(typeIds))))},
                            rest \in {Tail(typeIds)}} : TRUE

PlanInit ==
    /\ StoreInit /\ CodecOff /\ CalcOff
    /\ planInput \in PlanInputs
    /\ allReqs = <<>>
    /\ visited = {}
    /\ tasks = <<>>
    /\ skillNames = {}
    /\ plan = Null
    /\ planPc = "start"
    /\ fetchCount = <<>>

\* A resolver that follows the requirements of whatever type it fetched.
notASkill_never(skillType) == FALSE

\* skillType.category_id !== undefined && skillType.category_id !== CATEGORY_IDS.SKILL
notASkill(skillType) == skillType.category_id # CATEGORY_SKILL

Frame(skill, wait, rest) == [skill |-> skill, wait |-> wait, rest |-> rest]

\* A resolver that never records the skill it is about to fetch.
visitedAdd_forgets(seen, skillTypeId) == seen

\* visited.add(skillTypeId)
visitedAdd(seen, skillTypeId) == seen \cup {skillTypeId}

RECURSIVE visitedAddAll(_, _)
\* The calls started together each mark their skill before any lookup
\* settles.
visitedAddAll(seen, ids) ==
    IF ids = {} THEN seen
    ELSE LET id == CHOOSE x \in ids : TRUE
         IN  visitedAddAll(visitedAdd(seen, id), ids \ {id})

\* One more getType call made by resolvePrerequisites for this skill.
countFetch(counts, skillTypeId) ==
    [k \in DOMAIN counts \cup {skillTypeId} |->
        IF k = skillTypeId
        THEN (IF k \in DOMAIN counts THEN counts[k] ELSE 0) + 1
        ELSE counts[k]]

\* buildSkillPlan up to its second await: the module types that settle
\* fulfilled, the direct requirements, and one resolvePrerequisites call per
\* direct requirement, each run up to its lookup.
PlanStart ==
    /\ planPc = "start"
    /\ LET fetched == SelectSeq(planInput.modules, LAMBDA id : ~lookupFails(id))
           directReqs == directReqsOf(<<>>, <<planInput.ship>> \o fetched)
       IN  /\ allReqs' = directReqs
           /\ visited' = visitedAddAll({}, DOMAIN directReqs)
           /\ tasks' = [id \in DOMAIN directReqs |-> <<Frame(id, "fetch", <<>>)>>]
           /\ fetchCount' = [id \in DOMAIN directReqs |-> 1]
    /\ planPc' = "resolve"
    /\ UNCHANGED <<planInput, skillNames, plan, storeVars, codecVars, calcVars>>

\* A resolvePrerequisites call returns: its caller, if any, goes on.
popFrame(stack) ==
    LET below == SubSeq(stack, 1, Len(stack) - 1)
    IN  IF below = <<>> THEN below
        ELSE [below EXCEPT ![Len(below)].wait = "resume"]

\* One resolvePrerequisites call of task t runs from the await that has
\* just settled to its next await or to its return.
TaskStep(t) ==
    /\ planPc = "resolve"
    /\ tasks[t] # <<>>
    /\ LET stack == tasks[t]
           top == stack[Len(stack)]
           fetchedOut == top.wait = "fetch"
                         /\ (lookupFails(top.skill) \/ notASkill(PlanType(top.skill)))
           prereqs == IF top.wait = "fetch" THEN extractSkillReqs(PlanType(top.skill))
                      ELSE top.rest
       IN  /\ top.wait \in {"fetch", "resume"}
           /\ IF fetchedOut \/ prereqs = <<>>
              THEN /\ tasks' = [tasks EXCEPT ![t] = popFrame(stack)]
                   /\ UNCHANGED <<allReqs, visited, fetchCount>>
              ELSE LET prereq == Head(prereqs)
                       callee == prereq.skill_type_id
                   IN  /\ allReqs' = keepHighest(allReqs, prereq)
                       /\ IF callee \in visited
                          THEN /\ tasks' = [tasks EXCEPT ![t][Len(stack)] =
                                               Frame(top.skill, "resume", Tail(prereqs))]
                               /\ UNCHANGED <<visited, fetchCount>>
                          ELSE /\ tasks' = [tasks EXCEPT ![t] =
                                               Append([stack EXCEPT ![Len(stack)] =
                                                          Frame(top.skill, "child", Tail(prereqs))],
                                                      Frame(callee, "fetch", <<>>))]
                               /\ visited' = visitedAdd(visited, callee)
                               /\ fetchCount' = countFetch(fetchCount, callee)
    /\ UNCHANGED <<planInput, skillNames, plan, planPc, storeVars, codecVars, calcVars>>

\* A Recommended stage that puts every skill at IV.
stage2Level_flat(level) == 4

\* Math.max(level, 4): the Recommended level of a required skill.
stage2Level(level) == Max(level, 4)

SkillRequirement(id, level) ==
    [skill_type_id |-> id, skill_name |-> PlanType(id).name, required_level |-> level]

RECURSIVE sortByName(_)
\* skills.sort((a, b) => a.skill_name.localeCompare(b.skill_name))
sortByName(skills) ==
    IF skills = {} THEN <<>>
    ELSE CHOOSE sorted \in
             {<<first>> \o sortByName(all \ {first}) :
                 <<all, first>> \in
                     {<<skills, CHOOSE a \in skills :
                                   \A b \in skills :
                                       PlanType(a.skill_type_id).rank
                                           <= PlanType(b.skill_type_id).rank>>}} : TRUE

\* The skills of a level map that have a name, in name order.
stageSkills(levels, names) ==
    sortByName({SkillRequirement(id, levels[id]) : id \in DOMAIN levels \cap names})

SkillPlanStage(name, skills) == [name |-> name, skills |-> skills, total |-> Len(skills)]

\* A name step that gives up on every name when one lookup is rejected.
resolveNames_allOrNothing(ids) ==
    IF \E id \in ids : lookupFails(id) THEN {} ELSE ids

\* Step 3: the ids whose name lookup settled fulfilled with a name that the
\* stage loops keep.
resolveNames(ids) == {id \in ids : ~lookupFails(id) /\ PlanType(id).name # ""}

\* Steps 3 to 6 of buildSkillPlan, once every resolution has settled.
PlanFinish ==
    /\ planPc = "resolve"
    /\ \A t \in DOMAIN tasks : tasks[t] = <<>>
    /\ LET names == resolveNames(DOMAIN allReqs)
           stage1Skills == stageSkills(allReqs, names)
           stage2Map == [id \in DOMAIN allReqs \cup SupportSkillIds |->
                            IF id \in DOMAIN allReqs THEN stage2Level(allReqs[id]) ELSE 4]
           names2 == names \cup {id \in SupportSkillIds :
                                    ~lookupFails(id) /\ PlanType(id).name # ""}
           stage2Skills == stageSkills(stage2Map, names2)
           stage3Skills == [i \in DOMAIN stage2Skills |->
                               [stage2Skills[i] EXCEPT !.required_level = 5]]
       IN  /\ skillNames' = names2
           /\ plan' = [stages |-> <<SkillPlanStage("Minimum", stage1Skills),
                                    SkillPlanStage("Recommended", stage2Skills),
                                    SkillPlanStage("Mastery", stage3Skills)>>]
    /\ planPc' = "done"
    /\ UNCHANGED <<planInput, allReqs, visited, tasks, fetchCount, storeVars, codecVars, calcVars>>

PlanNext ==
    \/ PlanStart
    \/ \E t \in DOMAIN tasks : TaskStep(t)
    \/ PlanFinish

PlanSpec == PlanInit /\ [][PlanNext]_vars

\* The event loop runs a continuation once the lookup it awaits has settled,
\* and every lookup settles.
PlanFairSpec == PlanSpec /\ WF_vars(PlanNext)

\* ------------------------------------------------- capacitor simulator
\* simulateCap in fixed point.  Charge and capacity are counted in
\* thousandths of a GJ, the drain in thousandths of a GJ per second, the
\* recharge time in milliseconds as in the source, and simulated time in
\* steps of dt = 0.1 s (t = k / 10).  A quotient is taken to the nearest
\* thousandth where the source keeps a double.  An optional field of the
\* result is Null when absent and Some(x) when present; NaN is the number
\* the source computes from 0 / 0 or Infinity * 0.

DEFAULT_MAX_SIM_SECONDS == 600

NaN == [nan |-> TRUE]

RECURSIVE sqrtBetween(_, _, _)
\* The largest r in lo..hi with r * r <= n.
sqrtBetween(n, lo, hi) ==
    IF lo >= hi THEN lo
    ELSE LET mid == (lo + hi + 1) \div 2
         IN  IF mid * mid <= n THEN sqrtBetween(n, mid, hi) ELSE sqrtBetween(n, lo, mid - 1)

\* capacity * Math.sqrt(fraction) for fraction = cap / capacity >= 0, to the
\* nearest thousandth.
sqrtScaled(cap, capacity) ==
    LET r == sqrtBetween(cap * capacity, 0, Max(cap, capacity))
    IN  IF cap * capacity - r * r > r THEN r + 1 ELSE r

\* x / y to the nearest whole number, for y > 0.
divNearest(x, y) == (2 * x + y) \div (2 * y)

\* The passes of for (let t = 0; t < maxSimSeconds; t += dt): ten a second,
\* and one more where the sum of doubles 0.1 stays just below the whole
\* number (windows of 1 s and of 5 to 18 s, among those up to 39 s and the
\* default).
passesWithin(maxSimSeconds) ==
    IF maxSimSeconds <= 0 THEN 0
    ELSE 10 * maxSimSeconds
         + (IF maxSimSeconds = 1 \/ maxSimSeconds \in 5..18 THEN 1 ELSE 0)

\* An early return that lets a zero drain through to the simulation.
noDrain_strict(drainPerSecond) == drainPerSecond < 0

\* if (drainPerSecond <= 0)
noDrain(drainPerSecond) == drainPerSecond <= 0

\* drainPerSecond > peakRecharge * 1.1 with peakRecharge = 2.5 * capacity /
\* tau, for a recharge time above zero.
beyondPeak(capacity, rechargeMs, drainPerSecond) ==
    drainPerSecond * rechargeMs > 2750 * capacity

\* One pass of the loop body up to the new charge:
\* cap += (recharge - drainPerSecond) * dt, with
\* recharge = (capacity / tau) * 10 * (sqrt(fraction) - fraction) and
\* fraction = max(cap / capacity, 0).
capStep(cap, capacity, rechargeMs, drainPerSecond) ==
    LET held == Max(cap, 0)
        recharged == divNearest((sqrtScaled(held, capacity) - held) * 1000, rechargeMs)
    IN  cap + recharged - divNearest(drainPerSecond, 10)

\* A window that ends with the verdict of the stability search.
windowEnded_stable(maxSimSeconds) == [stable |-> TRUE, stablePercent |-> Some(0), lastsSeconds |-> Null]

\* return { stable: false, lastsSeconds: maxSimSeconds }
windowEnded(maxSimSeconds) ==
    [stable |-> FALSE, stablePercent |-> Null, lastsSeconds |-> Some(10 * maxSimSeconds)]

\* Math.round((cap / capacity) * 100)
roundPercent(cap, capacity) == (200 * cap + capacity) \div (2 * capacity)

Abs(x) == IF x < 0 THEN -x ELSE x

\* A loop between passes: the charge, the pass counter k (t = k / 10) and
\* the value returned, Null while the loop runs.
LoopAt(cap, k, out) == [cap |-> cap, k |-> k, out |-> out]

\* One pass of the loop of the quick branch, or its end.
exhaustPass(at, a) ==
    IF ~(at.k < passesWithin(a.maxSimSeconds))
    THEN LoopAt(at.cap, at.k, windowEnded(a.maxSimSeconds))
    ELSE LET next == capStep(at.cap, a.capacity, a.rechargeMs, a.drainPerSecond)
         IN  IF next <= 0
             THEN LoopAt(next, at.k,
                         [stable |-> FALSE, stablePercent |-> Null, lastsSeconds |-> Some(at.k)])
             ELSE LoopAt(next, at.k + 1, Null)

\* One pass of the loop of the stability search, or its end; the charge the
\* pass starts from is prevCap.
settlePass(at, a) ==
    IF ~(at.k < passesWithin(a.maxSimSeconds))
    THEN LoopAt(at.cap, at.k,
                [stable |-> TRUE, stablePercent |-> Some(roundPercent(at.cap, a.capacity)),
                 lastsSeconds |-> Null])
    ELSE LET next == capStep(at.cap, a.capacity, a.rechargeMs, a.drainPerSecond)
         IN  IF next <= 0
             THEN LoopAt(next, at.k,
                         [stable |-> FALSE, stablePercent |-> Null, lastsSeconds |-> Some(at.k)])
             ELSE IF at.k > 100 /\ Abs(next - at.cap) < 10
             THEN LoopAt(next, at.k,
                         [stable |-> TRUE,
                          stablePercent |-> Some(roundPercent(next, a.capacity)),
                          lastsSeconds |-> Null])
             ELSE LoopAt(next, at.k + 1, Null)

RECURSIVE runLoop(_, _, _, _)
\* At most n passes of a loop, stopping at its return; the passes are taken
\* half by half so that a long loop needs no deep nesting.
runLoop(at, a, quick, n) ==
    IF at.out # Null \/ n = 0 THEN at
    ELSE IF n = 1 THEN (IF quick THEN exhaustPass(at, a) ELSE settlePass(at, a))
    ELSE runLoop(runLoop(at, a, quick, n \div 2), a, quick, n - n \div 2)

\* for (let t = 0; t < maxSimSeconds; t += dt) { ... } and the return that
\* follows it.
loopResult(a, quick) ==
    runLoop(LoopAt(a.capacity, 0, Null), a, quick, passesWithin(a.maxSimSeconds) + 1).out

\* simulateCap(capacity, rechargeMs, drainPerSecond, maxSimSeconds) for a
\* capacity and a recharge time that are not negative.  With a capacity or a
\* recharge time of zero the first pass of a loop makes the charge NaN and no
\* comparison holds after it.
simulateCap(capacity, rechargeMs, drainPerSecond, maxSimSeconds) ==
    IF noDrain(drainPerSecond)
    THEN [stable |-> TRUE, stablePercent |-> Some(100), lastsSeconds |-> Null]
    ELSE IF rechargeMs = 0
    THEN [stable |-> TRUE,
          stablePercent |-> IF capacity = 0 \/ maxSimSeconds > 0 THEN NaN ELSE Some(100),
          lastsSeconds |-> Null]
    ELSE IF capacity = 0
    THEN windowEnded(maxSimSeconds)
    ELSE loopResult([capacity |-> capacity, rechargeMs |-> rechargeMs,
                     drainPerSecond |-> drainPerSecond, maxSimSeconds |-> maxSimSeconds],
                    beyondPeak(capacity, rechargeMs, drainPerSecond))

\* The capacities (0, 1 and 20 GJ), recharge times (0, 1 and 10 s), drains
\* (from a gain of 0.5 GJ/s to a drain of 50 GJ/s) and windows tried.
CapInputs ==
    [capacity : {0, 1000, 20000},
     rechargeMs : {0, 1000, 10000},
     drainPerSecond : {-500, 0, 10, 500, 2000, 5600, 50000},
     maxSimSeconds : (0..MaxWindow) \cup {DEFAULT_MAX_SIM_SECONDS}]

CapInit ==
    /\ StoreInit /\ CodecOff /\ PlanOff
    /\ calcArgs \in CapInputs
    /\ calcResult = Null
    /\ calcPc = "cap"

SimulateCap ==
    /\ calcPc = "cap"
    /\ calcResult' = simulateCap(calcArgs.capacity, calcArgs.rechargeMs,
                                 calcArgs.drainPerSecond, calcArgs.maxSimSeconds)
    /\ calcPc' = "done"
    /\ UNCHANGED <<calcArgs, storeVars, codecVars, planVars>>

CapSpec == CapInit /\ [][SimulateCap]_vars

\* ------------------------------------------------- skill bonuses: levels
\* applySkillBonuses on the same base snapshot under two skill maps that
\* differ in the level of one skill.

SkillLevels == 0..5

\* Base values are the multiples of 20 up to 20 * MaxBase.
BaseValues == {20 * k : k \in 0..MaxBase}

BaseStats(b, targets) ==
    [engineering |-> [cpu_total |-> b, cpu_used |-> 0, cpu_remaining |-> b,
                      pg_total |-> b, pg_used |-> 0, pg_remaining |-> b],
     capacitor |-> [capacity |-> b, recharge_rate |-> b],
     shield |-> [hp |-> b], armor |-> [hp |-> b], hull |-> [hp |-> b],
     navigation |-> [max_velocity |-> b, inertia_modifier |-> b, agility |-> b],
     targeting |-> [max_targets |-> targets, max_target_range |-> b, scan_resolution |-> b]]

\* The skill map with `skill` at `level` and every other support skill at
\* `others`; a level of 0 for the others leaves them out of the map.
SkillMapWith(skill, level, others) ==
    [id \in {skill} \cup (IF others = 0 THEN {} ELSE SupportSkillIds) |->
        IF id = skill THEN level ELSE others]

BonusInputs ==
    {[base |-> BaseStats(b, targets), skill |-> skill, low |-> l1, high |-> l2, others |-> o] :
        b \in BaseValues, targets \in {0, 7}, skill \in SupportSkillIds,
        l1 \in SkillLevels, l2 \in SkillLevels, o \in {0, 3}}

BonusInit ==
    /\ StoreInit /\ CodecOff /\ PlanOff
    /\ calcArgs \in {a \in BonusInputs : a.low < a.high}
    /\ calcResult = Null
    /\ calcPc = "bonus"

ApplyBonuses ==
    /\ calcPc = "bonus"
    /\ calcResult' =
           [low |-> applySkillBonusesAll(calcArgs.base,
                                         SkillMapWith(calcArgs.skill, calcArgs.low, calcArgs.others)),
            high |-> applySkillBonusesAll(calcArgs.base,
                                          SkillMapWith(calcArgs.skill, calcArgs.high, calcArgs.others))]
    /\ calcPc' = "done"
    /\ UNCHANGED <<calcArgs, storeVars, codecVars, planVars>>

BonusSpec == BonusInit /\ [][ApplyBonuses]_vars

\* ----------------------------------------- skill bonuses: derived fields
\* applySkillBonuses on the snapshot calculateShipStats builds for a ship.
\* Resonances are in hundredths; an align time is in units of
\* ln(4) / 1,000,000 s, the factor calculateAlignTime applies to every
\* product of agility and mass.

\* (em + thermal + kinetic + explosive) / 4; the profiles have whole averages.
avgResonance(resist) == (resist.em + resist.thermal + resist.kinetic + resist.explosive) \div 4

\* if (avgResonance >= 1) return hp; return hp / avgResonance;
calculateEHP(hp, resonance) == IF resonance >= 100 THEN hp ELSE (hp * 100) \div resonance

calculateAlignTime(mass, agility) == agility * mass

calcLayerStats(hp, resist) ==
    [hp |-> hp, resist |-> resist, ehp |-> calculateEHP(hp, avgResonance(resist)),
     avg_resist |-> avgResonance(resist)]

calcNavigation(maxVelocity, inertia, mass) ==
    [max_velocity |-> maxVelocity, agility |-> inertia,
     align_time |-> calculateAlignTime(mass, inertia), mass |-> mass,
     inertia_modifier |-> inertia]

\* A layer whose ehp is left as it was before the bonus.
layerDerived_stale(layer) == layer

\* stats.<layer>.ehp = calculateEHP(stats.<layer>.hp, avgResonance(...resist)).
layerDerived(layer) == [layer EXCEPT !.ehp = calculateEHP(layer.hp, avgResonance(layer.resist))]

\* applySkillBonuses with its derived fields and the deltas it returns.
applySkillBonusesDerived(st, skills) ==
    LET s == applySkillBonusesAll(st, skills)
        shield == layerDerived(s.shield)
        armor == layerDerived(s.armor)
        hull == layerDerived(s.hull)
        navigation == [s.navigation EXCEPT
                          !.align_time = calculateAlignTime(s.navigation.mass,
                                                            s.navigation.inertia_modifier)]
    IN  [stats |-> [engineering |-> s.engineering, capacitor |-> s.capacitor,
                    shield |-> shield, armor |-> armor, hull |-> hull,
                    total_ehp |-> shield.ehp + armor.ehp + hull.ehp,
                    navigation |-> navigation, targeting |-> s.targeting],
         skillDeltas |->
            [cpu_total |-> s.engineering.cpu_total - st.engineering.cpu_total,
             pg_total |-> s.engineering.pg_total - st.engineering.pg_total,
             cap_capacity |-> s.capacitor.capacity - st.capacitor.capacity,
             cap_recharge |-> s.capacitor.recharge_rate - st.capacitor.recharge_rate,
             shield_hp |-> shield.hp - st.shield.hp,
             armor_hp |-> armor.hp - st.armor.hp,
             hull_hp |-> hull.hp - st.hull.hp,
             max_velocity |-> navigation.max_velocity - st.navigation.max_velocity,
             inertia_modifier |-> navigation.inertia_modifier - st.navigation.inertia_modifier,
             align_time |-> navigation.align_time
                                - calculateAlignTime(navigation.mass, st.navigation.inertia_modifier),
             max_targets |-> s.targeting.max_targets - st.targeting.max_targets,
             max_target_range |-> s.targeting.max_target_range - st.targeting.max_target_range,
             scan_resolution |-> s.targeting.scan_resolution - st.targeting.scan_resolution]]

\* The resonance profiles of the layers: no resistance, an even half, an
\* uneven profile averaging a quarter, and one averaging above 1.
ResistProfiles ==
    {[em |-> 100, thermal |-> 100, kinetic |-> 100, explosive |-> 100],
     [em |-> 50, thermal |-> 50, kinetic |-> 50, explosive |-> 50],
     [em |-> 40, thermal |-> 30, kinetic |-> 20, explosive |-> 10],
     [em |-> 200, thermal |-> 100, kinetic |-> 100, explosive |-> 100]}

\* The snapshot calculateShipStats builds for a hull with the given base
\* value, fitted usage, resonance profile and mass.
ShipSnapshot(b, used, resist, mass) ==
    [engineering |-> [cpu_total |-> b, cpu_used |-> used, cpu_remaining |-> b - used,
                      pg_total |-> b, pg_used |-> used, pg_remaining |-> b - used],
     capacitor |-> [capacity |-> b, recharge_rate |-> b],
     shield |-> calcLayerStats(b, resist),
     armor |-> calcLayerStats(b + 20, resist),
     hull |-> calcLayerStats(b + 40, resist),
     total_ehp |-> calcLayerStats(b, resist).ehp + calcLayerStats(b + 20, resist).ehp
                       + calcLayerStats(b + 40, resist).ehp,
     navigation |-> calcNavigation(b, b, mass),
     targeting |-> [max_targets |-> 7, max_target_range |-> b, scan_resolution |-> b]]

DerivedInputs ==
    {[stats |-> ShipSnapshot(b, u[1], resist, u[2]), skills |-> SkillMapWith(skill, level, others)] :
        b \in BaseValues, u \in {<<0, 1>>, <<10, 2>>}, resist \in ResistProfiles,
        skill \in SupportSkillIds, level \in SkillLevels, others \in {0, 3}}

DerivedInit ==
    /\ StoreInit /\ CodecOff /\ PlanOff
    /\ calcArgs \in DerivedInputs
    /\ calcResult = Null
    /\ calcPc = "derived"

ApplyDerived ==
    /\ calcPc = "derived"
    /\ calcResult' = applySkillBonusesDerived(calcArgs.stats, calcArgs.skills)
    /\ calcPc' = "done"
    /\ UNCHANGED <<calcArgs, storeVars, codecVars, planVars>>

DerivedSpec == DerivedInit /\ [][ApplyDerived]_vars

\* ------------------------------------------------------------ ESI proxy
\* handleProxy of /api/esi/[...path].  A path is the list of its segments,
\* a segment the list of its characters; a session carries the character id
\* and the time its access token expires.

RECURSIVE joinPath(_)
\* params.path.join("/")
joinPath(path) ==
    IF path = <<>> THEN <<>>
    ELSE IF Len(path) = 1 THEN path[1]
    ELSE path[1] \o <<"/">> \o joinPath(Tail(path))

\* const esiPath = "/" + params.path.join("/")
esiPathOf(path) == <<"/">> \o joinPath(path)

\* The pieces the patterns are built from: a literal text, or \d+.
Lit(text) == [lit |-> text]

DigitRun == [digits |-> TRUE]

IsLit(piece) == "lit" \in DOMAIN piece

\* The literal texts of the patterns.
WCHARS == <<"/", "c", "h", "a", "r", "a", "c", "t", "e", "r", "s", "/">>

WFITTINGS == <<"/", "f", "i", "t", "t", "i", "n", "g", "s">>

WFITTINGS_SLASH == <<"/", "f", "i", "t", "t", "i", "n", "g", "s", "/">>

WSKILLS == <<"/", "s", "k", "i", "l", "l", "s">>

WSHIP == <<"/", "s", "h", "i", "p">>

WSEARCH == <<"/", "s", "e", "a", "r", "c", "h">>

\* The words requests are made of.
SCHARACTERS == <<"c", "h", "a", "r", "a", "c", "t", "e", "r", "s">>

SFITTINGS == <<"f", "i", "t", "t", "i", "n", "g", "s">>

SSKILLS == <<"s", "k", "i", "l", "l", "s">>

SSHIP == <<"s", "h", "i", "p">>

SSEARCH == <<"s", "e", "a", "r", "c", "h">>

SWALLET == <<"w", "a", "l", "l", "e", "t">>

STYPES == <<"t", "y", "p", "e", "s">>

\* ALLOWED_PATTERNS; each pattern is anchored at the start and closed by
\* \/?$ .
ALLOWED_PATTERNS ==
    <<
      <<Lit(WCHARS), DigitRun, Lit(WFITTINGS)>>,
      <<Lit(WCHARS), DigitRun, Lit(WFITTINGS_SLASH), DigitRun>>,
      <<Lit(WCHARS), DigitRun, Lit(WSKILLS)>>,
      <<Lit(WCHARS), DigitRun, Lit(WSHIP)>>,
      <<Lit(WSEARCH)>>
    >>

RECURSIVE digitPrefix(_)
\* The length of the longest run of digits s starts with.
digitPrefix(s) ==
    IF s = <<>> \/ ~IsDigit(Head(s)) THEN 0 ELSE 1 + digitPrefix(Tail(s))

RECURSIVE matchPieces(_, _)
\* The pieces matched from the start of s: whether they match and the text
\* left after them.  \d+ takes every digit there is; the piece after it
\* never starts with a digit, so taking fewer cannot match.
matchPieces(pieces, s) ==
    IF pieces = <<>> THEN [ok |-> TRUE, rest |-> s, digits |-> <<>>]
    ELSE IF IsLit(Head(pieces))
    THEN IF startsWith(s, Head(pieces).lit)
         THEN matchPieces(Tail(pieces), SubSeq(s, Len(Head(pieces).lit) + 1, Len(s)))
         ELSE [ok |-> FALSE, rest |-> s, digits |-> <<>>]
    ELSE LET n == digitPrefix(s)
         IN  IF n = 0 THEN [ok |-> FALSE, rest |-> s, digits |-> <<>>]
             ELSE matchPieces(Tail(pieces), SubSeq(s, n + 1, Len(s)))

\* re.test(path) for a pattern closed by \/?$
testPattern(pieces, esiPath) ==
    LET m == matchPieces(pieces, esiPath)
    IN  m.ok /\ (m.rest = <<>> \/ m.rest = <<"/">>)

\* An allowlist that lets every path through.
isPathAllowed_any(esiPath) == TRUE

\* ALLOWED_PATTERNS.some((re) => re.test(path))
isPathAllowed(esiPath) ==
    \E i \in DOMAIN ALLOWED_PATTERNS : testPattern(ALLOWED_PATTERNS[i], esiPath)

\* path.match(/^\/characters\/(\d+)\//): the parsed digits, or null.
extractCharacterId(esiPath) ==
    IF ~startsWith(esiPath, WCHARS) THEN Null
    ELSE LET after == SubSeq(esiPath, Len(WCHARS) + 1, Len(esiPath))
             n == digitPrefix(after)
         IN  IF n > 0 /\ Len(after) > n /\ after[n + 1] = "/"
             THEN Some(parseInt(SubSeq(after, 1, n)))
             ELSE Null

\* A comparison that lets every character id through.
characterMismatch_never(pathCharId, session) == FALSE

\* pathCharId !== null && pathCharId !== session.character.characterId
characterMismatch(pathCharId, session) ==
    pathCharId # Null /\ pathCharId.v # session.characterId

\* NextResponse.json({ error }, { status })
jsonError(error, status) == [status |-> status, error |-> error]

\* The character ids of the sessions and the segments the paths are made of.
CharacterIds == 1..MaxCharacterId

IdSegments == {<<DigitChars[i + 1]>> : i \in 1..(MaxCharacterId + 1)} \cup {<<"0", "1">>}

WordSegments == {SFITTINGS, SSKILLS, SSHIP, SWALLET}

ProxyPaths ==
    {<<>>, <<SSEARCH>>, <<SSEARCH, <<>>>>, <<SCHARACTERS>>, <<STYPES, <<"1">>>>}
    \cup {<<SCHARACTERS, id>> : id \in IdSegments}
    \cup {<<SCHARACTERS, id, word>> : id \in IdSegments, word \in WordSegments}
    \cup {<<SCHARACTERS, id, SSKILLS, <<>>>> : id \in IdSegments}
    \cup {<<SCHARACTERS, id, SFITTINGS, <<"7">>>> : id \in IdSegments}
    \cup {<<SCHARACTERS, <<"x">>, SSKILLS>>, <<SCHARACTERS, <<"1", "x">>, SSKILLS>>,
          <<SSEARCH, SCHARACTERS, <<"2">>, SSKILLS>>}

\* The sessions a request comes with: none, or the session of a character
\* with the tokens the callback stored in it.
\* The seconds before the expiry at which a token is refreshed.
buffer == 60

\* The expiry a session records, and the clock at a request, in seconds:
\* the token has one second less than the buffer left, the buffer exactly,
\* or up to two seconds more.
ExpiryTimes == {buffer, buffer + 1, buffer + 2}

RequestTimes == {0, 1}

ProxySessions ==
    {Null} \cup [characterId : CharacterIds, expiresAt : ExpiryTimes,
                 accessToken : {"accessToken"}, refreshToken : {"refreshToken"}]

ProxyMethods == {"GET", "POST", "DELETE"}

\* A request, and what Date.now() reads while it is handled.
ProxyRequests ==
    [session : ProxySessions, path : ProxyPaths, method : ProxyMethods, now : RequestTimes]

\* encrypt(plaintext): AES-256-GCM under the server's key; the browser holds
\* the ciphertext only.
encrypt(plaintext) == [enc |-> plaintext]

\* writeSessionCookie(session): the cookie the response sets.
writeSessionCookie(session) ==
    [name |-> "eve_session", value |-> encrypt(session), httpOnly |-> TRUE]

\* What the handler has sent upstream so far, what it has answered and the
\* cookies it has set.
Exchange(sent, response, cookies) ==
    [sent |-> sent, response |-> response, cookies |-> cookies]

ProxyInit ==
    /\ StoreInit /\ CodecOff /\ PlanOff
    /\ calcArgs \in ProxyRequests
    /\ calcResult = Exchange(<<>>, Null, <<>>)
    /\ calcPc = "proxy"

\* handleProxy up to the token: the session, the allowlist and the
\* character id are checked in this order.
handleProxy ==
    /\ calcPc = "proxy"
    /\ LET session == calcArgs.session
           esiPath == esiPathOf(calcArgs.path)
       IN  IF session = Null
           THEN /\ calcResult' = [calcResult EXCEPT
                                     !.response = jsonError("Not authenticated", 401)]
                /\ calcPc' = "done"
           ELSE IF ~isPathAllowed(esiPath)
           THEN /\ calcResult' = [calcResult EXCEPT
                                     !.response = jsonError("Path not allowed", 403)]
                /\ calcPc' = "done"
           ELSE IF characterMismatch(extractCharacterId(esiPath), session)
           THEN /\ calcResult' = [calcResult EXCEPT
                                     !.response = jsonError("Character mismatch", 403)]
                /\ calcPc' = "done"
           ELSE /\ calcResult' = calcResult
                /\ calcPc' = "token"
    /\ UNCHANGED <<calcArgs, storeVars, codecVars, planVars>>

\* The answer of the token endpoint to a good code or refresh token.
tokenResponse ==
    [access_token |-> "newAccessToken", refresh_token |-> "newRefreshToken",
     expires_in |-> 1200]

\* The session getValidAccessToken returns after a refresh.
refreshedSession(session, now) ==
    [session EXCEPT !.accessToken = tokenResponse.access_token,
                    !.refreshToken = tokenResponse.refresh_token,
                    !.expiresAt = now + tokenResponse.expires_in]

\* The test with the buffer left out of the comparison's strict side.
tokenStillValid_atBuffer(session, now) == session.expiresAt - now >= buffer

\* session.expiresAt - now > buffer
tokenStillValid(session, now) == session.expiresAt - now > buffer

\* getValidAccessToken(session): a token with more than the buffer left is
\* used as it is; otherwise the token endpoint is asked for a new one with
\* the refresh token, the new access token is verified and the updated
\* session is written to the cookie; the request ends with 401 when the
\* refresh or the verification throws.
getValidAccessToken ==
    /\ calcPc = "token"
    /\ \E outcome \in {"verified", "Token refresh failed", "signature verification failed"} :
           IF tokenStillValid(calcArgs.session, calcArgs.now)
           THEN /\ outcome = "verified"
                /\ calcResult' = calcResult
                /\ calcPc' = "fetch"
           ELSE LET asked == Append(calcResult.sent,
                                    [to |-> "sso", path |-> <<>>, method |-> "POST",
                                     refresh_token |-> calcArgs.session.refreshToken])
                IN  IF outcome = "verified"
                    THEN /\ calcResult' =
                                Exchange(asked, Null,
                                         Append(calcResult.cookies,
                                                writeSessionCookie(
                                                    refreshedSession(calcArgs.session,
                                                                     calcArgs.now))))
                         /\ calcPc' = "fetch"
                    ELSE /\ calcResult' = Exchange(asked, jsonError("Token refresh failed", 401),
                                                   calcResult.cookies)
                         /\ calcPc' = "done"
    /\ UNCHANGED <<calcArgs, storeVars, codecVars, planVars>>

\* The token of the Authorization header: the session's, or the refreshed one.
bearerToken ==
    IF calcResult.cookies = <<>> THEN calcArgs.session.accessToken
    ELSE refreshedSession(calcArgs.session, calcArgs.now).accessToken

\* fetch(esiUrl, fetchOptions): the request goes to ESI under the path and
\* the method of the original with the token as its bearer; the answer
\* carries the status and the text ESI gave (ESI answers with its own data
\* and does not repeat the bearer), or 502 when the fetch fails.
forwardToEsi ==
    /\ calcPc = "fetch"
    /\ \E status \in {200, 404, 502} :
           calcResult' =
               [calcResult EXCEPT
                   !.sent = Append(@, [to |-> "esi", path |-> esiPathOf(calcArgs.path),
                                       method |-> calcArgs.method,
                                       authorization |-> bearerToken]),
                   !.response = IF status = 502 THEN jsonError("ESI request failed", 502)
                                ELSE [status |-> status, error |-> "", text |-> {"esiData"}]]
    /\ calcPc' = "done"
    /\ UNCHANGED <<calcArgs, storeVars, codecVars, planVars>>

ProxyNext == handleProxy \/ getValidAccessToken \/ forwardToEsi

ProxySpec == ProxyInit /\ [][ProxyNext]_vars

\* ------------------------------------------------- session and callback
\* The session endpoint and the SSO callback, next to the proxy: what each
\* sends to the browser.  A body or a URL is the set of the texts it is
\* built from; the tokens are texts of their own.

\* The tokens the token endpoint hands out.
Tokens == {"accessToken", "refreshToken", "newAccessToken", "newRefreshToken"}

\* A body that carries the whole session.
clientSession_whole(session) ==
    IF session = Null THEN {"isLoggedIn"}
    ELSE {"isLoggedIn", "character", session.accessToken, session.refreshToken}

\* The body of GET /api/auth/session: { isLoggedIn, character }.
clientSession(session) ==
    IF session = Null THEN {"isLoggedIn"} ELSE {"isLoggedIn", "character"}

\* NextResponse.redirect(url): the URL is built from these texts.
redirect(urlTexts) == [status |-> 307, error |-> "", text |-> urlTexts]

SessionRequests == [session : ProxySessions]

\* The callback's query (whether a code came, and the state) and the PKCE
\* cookie of the login that started it.
CallbackRequests ==
    [code : BOOLEAN, state : {"", "s1", "s2"},
     pkce : {Null, [verifier |-> "verifier", state |-> "s1"]}]

\* GET of the session endpoint.
getSession ==
    /\ calcPc = "session"
    /\ calcResult' = [calcResult EXCEPT
                         !.response = [status |-> 200, error |-> "",
                                       text |-> clientSession(calcArgs.session)]]
    /\ calcPc' = "done"
    /\ UNCHANGED <<calcArgs, storeVars, codecVars, planVars>>

\* GET of the callback up to the token exchange: the query and the PKCE
\* cookie are checked, and the PKCE cookie is cleared.
authCallback ==
    /\ calcPc = "callback"
    /\ IF ~calcArgs.code \/ calcArgs.state = ""
       THEN /\ calcResult' = [calcResult EXCEPT
                                 !.response = redirect({"/?auth_error=missing_params"})]
            /\ calcPc' = "done"
       ELSE IF calcArgs.pkce = Null \/ calcArgs.pkce.state # calcArgs.state
       THEN /\ calcResult' = [calcResult EXCEPT
                                 !.response = redirect({"/?auth_error=invalid_state"})]
            /\ calcPc' = "done"
       ELSE /\ calcResult' = [calcResult EXCEPT
                                 !.cookies = Append(@, [name |-> "eve_pkce", value |-> Null,
                                                        httpOnly |-> TRUE])]
            /\ calcPc' = "exchange"
    /\ UNCHANGED <<calcArgs, storeVars, codecVars, planVars>>

\* The redirect of the catch block: auth_detail is the start of the message
\* of the error.
exchangeFailed(message) == redirect({"/?auth_error=exchange_failed", "auth_detail"} \cup message)

\* exchangeCode(code, verifier): the token endpoint answers with the tokens,
\* or with an error whose text goes into the message thrown.
exchangeCode ==
    /\ calcPc = "exchange"
    /\ \E ok \in BOOLEAN :
           LET asked == Append(calcResult.sent, [to |-> "sso", path |-> <<>>, method |-> "POST"])
           IN  IF ok
               THEN /\ calcResult' = [calcResult EXCEPT !.sent = asked]
                    /\ calcPc' = "verify"
               ELSE /\ calcResult' =
                           [calcResult EXCEPT
                               !.sent = asked,
                               !.response = exchangeFailed({"Token exchange failed", "ssoError"})]
                    /\ calcPc' = "done"
    /\ UNCHANGED <<calcArgs, storeVars, codecVars, planVars>>

\* verifyEveJWT(access_token) and the rest of the callback: the session is
\* built from the token response (the clock reads 0) and written to the
\* cookie, or the error of
\* the verification (a bad signature, a bad subject) ends in the redirect
\* of the catch block.
verifyEveJWT ==
    /\ calcPc = "verify"
    /\ \E outcome \in {"verified", "signature verification failed", "Invalid JWT subject"},
          id \in CharacterIds :
           IF outcome = "verified"
           THEN LET session == [characterId |-> id,
                                expiresAt |-> tokenResponse.expires_in,
                                accessToken |-> tokenResponse.access_token,
                                refreshToken |-> tokenResponse.refresh_token]
                IN  calcResult' = [calcResult EXCEPT
                                      !.cookies = Append(@, writeSessionCookie(session)),
                                      !.response = redirect({"/"})]
           ELSE /\ id = 1
                /\ calcResult' = [calcResult EXCEPT
                                     !.response = exchangeFailed({outcome, "sub"})]
    /\ calcPc' = "done"
    /\ UNCHANGED <<calcArgs, storeVars, codecVars, planVars>>

\* A request to one of the three endpoints.
BrowserInit ==
    /\ StoreInit /\ CodecOff /\ PlanOff
    /\ calcResult = Exchange(<<>>, Null, <<>>)
    /\ \/ calcArgs \in ProxyRequests /\ calcPc = "proxy"
       \/ calcArgs \in SessionRequests /\ calcPc = "session"
       \/ calcArgs \in CallbackRequests /\ calcPc = "callback"

BrowserNext ==
    \/ handleProxy
    \/ getValidAccessToken
    \/ forwardToEsi
    \/ getSession
    \/ authCallback
    \/ exchangeCode
    \/ verifyEveJWT

BrowserSpec == BrowserInit /\ [][BrowserNext]_vars

\* ------------------------------------------------- login and callback
\* The browser between the login route and the callback.  The server keeps
\* nothing between two requests: a request carries the cookies the browser
\* holds when it sends it, and the cookies a handler sets or deletes reach
\* the browser with the response.  A handler is a function of its request
\* and of the answers of the SSO, so that a request sent while another is
\* being answered is handled here after that other one, with the cookies
\* it was sent with.

\* The callbacks the browser sends.
MaxCallbacks == 2

\* generateState(): a new random state at every login.
LoginStates == <<"s1", "s2">>

\* The browser's cookies, the logins so far, the request sent while the
\* current one is answered, and the callbacks answered so far, next to the
\* exchange of the current request.
BrowserState(jar, logins, queued, handled) ==
    [sent |-> <<>>, response |-> Null, cookies |-> <<>>,
     jar |-> jar, logins |-> logins, queued |-> queued, handled |-> handled]

CallbackInit ==
    /\ StoreInit /\ CodecOff /\ PlanOff
    /\ calcArgs = Null
    /\ calcResult = BrowserState([pkce |-> Null, session |-> Null], 0, Null, <<>>)
    /\ calcPc = "browser"

\* GET /api/auth/login: the verifier and a new state go into the PKCE
\* cookie, and the browser is sent to the SSO.
login ==
    /\ calcPc = "browser"
    /\ calcResult.logins < Len(LoginStates)
    /\ calcResult' =
           [calcResult EXCEPT
               !.logins = @ + 1,
               !.jar.pkce = [verifier |-> "verifier", state |-> LoginStates[calcResult.logins + 1]]]
    /\ UNCHANGED <<calcArgs, calcPc, storeVars, codecVars, planVars>>

\* The browser requests the callback URL with the cookie it holds, once or
\* twice in a row (a reload while the first request is being answered).
browserSends ==
    /\ calcPc = "browser"
    /\ \E code \in BOOLEAN, state \in {"", "s1", "s2"}, twice \in BOOLEAN :
           LET request == [code |-> code, state |-> state, pkce |-> calcResult.jar.pkce]
           IN  /\ Len(calcResult.handled) + (IF twice THEN 2 ELSE 1) <= MaxCallbacks
               /\ calcArgs' = request
               /\ calcResult' = [calcResult EXCEPT
                                     !.queued = IF twice THEN request ELSE Null]
    /\ calcPc' = "callback"
    /\ UNCHANGED <<storeVars, codecVars, planVars>>

\* The cookies of a response applied to the browser's.
applyCookies(jar, cookies) ==
    [pkce |-> IF \E i \in DOMAIN cookies :
                     cookies[i].name = "eve_pkce" /\ cookies[i].value = Null
              THEN Null ELSE jar.pkce,
     session |-> IF \E i \in DOMAIN cookies : cookies[i].name = "eve_session"
                 THEN (CHOOSE c \in {cookies[i] : i \in DOMAIN cookies} :
                           c.name = "eve_session").value
                 ELSE jar.session]

\* What is kept of an answered callback.
Answered(request, exchange) ==
    [code |-> request.code, state |-> request.state,
     response |-> exchange.response,
     exchanged |-> exchange.sent # <<>>,
     session |-> \E i \in DOMAIN exchange.cookies : exchange.cookies[i].name = "eve_session"]

\* The response reaches the browser; the request sent in the meantime is
\* the next the server answers.
browserReceives ==
    /\ calcPc = "done"
    /\ calcResult' =
           BrowserState(applyCookies(calcResult.jar, calcResult.cookies),
                        calcResult.logins, Null,
                        Append(calcResult.handled, Answered(calcArgs, calcResult)))
    /\ IF calcResult.queued # Null
       THEN calcArgs' = calcResult.queued /\ calcPc' = "callback"
       ELSE calcArgs' = Null /\ calcPc' = "browser"
    /\ UNCHANGED <<storeVars, codecVars, planVars>>

CallbackNext ==
    \/ login
    \/ browserSends
    \/ authCallback
    \/ exchangeCode
    \/ verifyEveJWT
    \/ browserReceives

CallbackSpec == CallbackInit /\ [][CallbackNext]_vars

\* ------------------------------------------------------------ ESI cache
\* The in-memory cache of the ESI client and getType on top of it.  Times
\* are milliseconds; a response is told from another of the same key by
\* the time it arrived, which is the time it was stored.

\* 1000 * 60 * 60
CACHE_TTL == 3600000

MaxTicks == 3

MaxPending == 2

CacheKeys == {"type:1", "type:2"}

\* Date.now() > entry.expires, with the moment of expiry counted as expired.
isExpired_atExpiry(entry, now) == now >= entry.expires

\* Date.now() > entry.expires
isExpired(entry, now) == now > entry.expires

\* getCached(key): what it returns and the cache it leaves.
getCached(cache, key, now) ==
    IF cache[key] = Null THEN [data |-> Null, cache |-> cache]
    ELSE IF isExpired(cache[key], now)
    THEN [data |-> Null, cache |-> [cache EXCEPT ![key] = Null]]
    ELSE [data |-> cache[key].data, cache |-> cache]

\* setCached(key, data) with the default ttl.
setCached(cache, key, data, now) ==
    [cache EXCEPT ![key] = [data |-> data, expires |-> now + CACHE_TTL]]

\* The last call, the cache, the clock, the fetches in flight per key and
\* what the last call returned.
CacheState(cache, now, ticks, pending, returned) ==
    [cache |-> cache, now |-> now, ticks |-> ticks, pending |-> pending,
     returned |-> returned]

CacheInit ==
    /\ StoreInit /\ CodecOff /\ PlanOff
    /\ calcArgs = [op |-> "start", key |-> ""]
    /\ calcResult = CacheState([k \in CacheKeys |-> Null], 0, 0,
                               [k \in CacheKeys |-> 0], Null)
    /\ calcPc = "cache"

\* getType up to its await: the cached value is returned, or the fetch of
\* the type starts.
getType ==
    /\ calcPc = "cache"
    /\ \E key \in CacheKeys :
           LET cached == getCached(calcResult.cache, key, calcResult.now)
           IN  /\ calcArgs' = [op |-> "getType", key |-> key]
               /\ IF cached.data # Null
                  THEN calcResult' = [calcResult EXCEPT !.returned = cached.data]
                  ELSE /\ calcResult.pending[key] < MaxPending
                       /\ calcResult' = [calcResult EXCEPT
                                             !.cache = cached.cache,
                                             !.pending[key] = @ + 1,
                                             !.returned = Null]
    /\ UNCHANGED <<calcPc, storeVars, codecVars, planVars>>

\* esiFetch settles: the response is stored and returned, or the error is
\* thrown and nothing is stored.
esiFetch ==
    /\ calcPc = "cache"
    /\ \E key \in CacheKeys, ok \in BOOLEAN :
           LET data == [key |-> key, arrived |-> calcResult.now]
           IN  /\ calcResult.pending[key] > 0
               /\ calcArgs' = [op |-> IF ok THEN "fetched" ELSE "thrown", key |-> key]
               /\ calcResult' =
                      [calcResult EXCEPT
                          !.cache = IF ok THEN setCached(@, key, data, calcResult.now) ELSE @,
                          !.pending[key] = @ - 1,
                          !.returned = IF ok THEN data ELSE Null]
    /\ UNCHANGED <<calcPc, storeVars, codecVars, planVars>>

\* Time passes: a millisecond, or an hour.
Tick ==
    /\ calcPc = "cache"
    /\ calcResult.ticks < MaxTicks
    /\ \E d \in {1, CACHE_TTL} :
           calcResult' = [calcResult EXCEPT !.now = @ + d, !.ticks = @ + 1,
                                           !.returned = Null]
    /\ calcArgs' = [op |-> "tick", key |-> ""]
    /\ UNCHANGED <<calcPc, storeVars, codecVars, planVars>>

CacheNext == getType \/ esiFetch \/ Tick

CacheSpec == CacheInit /\ [][CacheNext]_vars

\* ------------------------------------------------------ properties: store

EmptySlots(slots) == {i \in DOMAIN slots : slots[i] = Null}

Flagged(slots, effect) == {i \in DOMAIN slots : slots[i] # Null /\ effect \in slots[i].effects}

\* The positions of a category a step fills.
NewlyFilled(slotType) ==
    {i \in DOMAIN Slots(fitting, slotType) :
        Slots(fitting, slotType)[i] = Null /\ Slots(fitting', slotType)[i] # Null}

\* A step of fillSlots that changes the category.
FillsCategory(slotType) ==
    /\ lastOp' = "fillSlots"
    /\ Slots(fitting', slotType) # Slots(fitting, slotType)

\* The step fills exactly the min(E, max(0, H - P)) lowest empty positions.
FillStopsAtCap(slotType, effect, H) ==
    LET old == Slots(fitting, slotType)
        n == Min(Cardinality(EmptySlots(old)), Max(0, H - Cardinality(Flagged(old, effect))))
    IN  /\ Cardinality(NewlyFilled(slotType)) = n
        /\ \A i \in NewlyFilled(slotType) : \A j \in EmptySlots(old) :
               j < i => j \in NewlyFilled(slotType)
        /\ \A i \in DOMAIN old : old[i] # Null => Slots(fitting', slotType)[i] = old[i]

\* C1: a fillSlots with a turret-fitted (42) or launcher-fitted (40) module
\* fills empty slots of the category in ascending index order and stops at
\* the hardpoint cap: with E empty slots, P modules of that hardpoint kind
\* already in the category and H the limit in the current stats, exactly
\* min(E, max(0, H - P)) slots are newly filled.
C1_FillStopsAtHardpointCap ==
    [][\A slotType \in SlotTypes :
           FillsCategory(slotType) =>
               \A i \in NewlyFilled(slotType) :
                   LET m == Slots(fitting', slotType)[i]
                   IN  /\ EFFECT_TURRET_FITTED \in m.effects =>
                              FillStopsAtCap(slotType, EFFECT_TURRET_FITTED, stats.turret_hardpoints)
                       /\ (EFFECT_LAUNCHER_FITTED \in m.effects
                           /\ EFFECT_TURRET_FITTED \notin m.effects) =>
                              FillStopsAtCap(slotType, EFFECT_LAUNCHER_FITTED,
                                             stats.launcher_hardpoints)]_vars

\* A fill of turrets has stopped at the cap with a slot still empty.
C1_Witness ==
    /\ lastOp = "fillSlots"
    /\ fitting # Null /\ stats # Null
    /\ EmptySlots(fitting.high_slots) # {}
    /\ Flagged(fitting.high_slots, EFFECT_TURRET_FITTED) # {}
    /\ Cardinality(Flagged(fitting.high_slots, EFFECT_TURRET_FITTED)) = stats.turret_hardpoints

\* C2: whenever a fitting and a ship are set, the stored stats and
\* skillDeltas equal the result of recomputing them from the current
\* shipType, fitting, skillMode and skillMap.
C2_StatsAreFresh ==
    (fitting # Null /\ shipType # Null) =>
        /\ stats = computeStatsWithSkills(shipType, fitting, skillMode, skillMap).stats
        /\ skillDeltas = computeStatsWithSkills(shipType, fitting, skillMode, skillMap).skillDeltas

SlotLengths(f) == [s \in SlotTypes |-> Len(Slots(f, s))]

EditOps ==
    {"addModule", "fillSlots", "removeModule", "toggleModuleState", "setModuleCharge",
     "addDrone", "removeDrone", "setFitName", "setDescription"}

ReplaceOps == {"setShip", "importESI", "importEFT", "loadFitting", "clearShip"}

\* C3: the lengths of the five slot arrays are unchanged by addModule,
\* fillSlots, removeModule, toggleModuleState, setModuleCharge, addDrone,
\* removeDrone, setFitName and setDescription; a step that changes a length
\* is one that replaces the fitting (setShip, an import, loadFitting).
C3_SlotLengthsFixed ==
    [][/\ lastOp' \in EditOps =>
              /\ fitting # Null /\ fitting' # Null
              /\ SlotLengths(fitting') = SlotLengths(fitting)
       /\ (fitting # Null /\ fitting' # Null /\ SlotLengths(fitting') # SlotLengths(fitting)) =>
              lastOp' \in ReplaceOps]_vars

\* A rack emptied by removeModule still has its three slots.
C3_Witness ==
    /\ lastOp = "removeModule"
    /\ fitting # Null
    /\ Len(fitting.high_slots) = 3
    /\ EmptySlots(fitting.high_slots) = {1, 2, 3}

\* C4: each module at position i of a slot array has slot_index = i and the
\* slot_type of that array, and each drone at position i of the drone list
\* has slot_index = i (positions counted from 0 as in the source).
C4_SlotIndexIsPosition ==
    fitting # Null =>
        /\ \A s \in SlotTypes : \A i \in DOMAIN Slots(fitting, s) :
               Slots(fitting, s)[i] # Null =>
                   /\ Slots(fitting, s)[i].slot_index = i - 1
                   /\ Slots(fitting, s)[i].slot_type = s
        /\ \A i \in DOMAIN fitting.drones : fitting.drones[i].slot_index = i - 1

\* removeDrone has taken one of two drones away and one is left.
C4_Witness ==
    /\ lastOp = "removeDrone"
    /\ fitting # Null
    /\ Len(fitting.drones) = 1

\* C5: every module held in rig_slots or subsystem_slots has state passive.
C5_RigsArePassive ==
    fitting # Null =>
        \A s \in {"rig", "subsystem"} : \A i \in DOMAIN Slots(fitting, s) :
            Slots(fitting, s)[i] # Null => Slots(fitting, s)[i].state = "passive"

\* The fitted modules of the whole fitting that carry an effect.
FittedWith(f, effect) ==
    Cardinality({i \in DOMAIN allFittedModules(f) : effect \in allFittedModules(f)[i].effects})

\* C6 as claimed: the number of fitted turret-flagged modules never exceeds
\* the ship's turret hardpoint limit, nor the number of launcher-flagged
\* modules its launcher hardpoint limit.
C6_HardpointsNeverExceeded ==
    (fitting # Null /\ shipType # Null) =>
        /\ FittedWith(fitting, EFFECT_TURRET_FITTED) <= shipAttr(shipType, ATTR_TURRET_SLOTS_LEFT, 0)
        /\ FittedWith(fitting, EFFECT_LAUNCHER_FITTED)
               <= shipAttr(shipType, ATTR_LAUNCHER_SLOTS_LEFT, 0)

\* The step leaves at most max(P, H) modules with the effect in the category.
FillKeepsCap(slotType, effect, H) ==
    Cardinality(Flagged(Slots(fitting', slotType), effect))
        <= Max(Cardinality(Flagged(Slots(fitting, slotType), effect)), H)

\* C6 amended: only fillSlots checks hardpoints.  A fillSlots with a turret-
\* or launcher-flagged module never takes the number of such modules in the
\* filled category above the ship's hardpoint limit (it places none when the
\* limit is already reached or exceeded); addModule and the imports place
\* modules without a hardpoint check.
C6_FillRespectsHardpointCap ==
    [][\A slotType \in SlotTypes :
           FillsCategory(slotType) =>
               \A i \in NewlyFilled(slotType) :
                   LET m == Slots(fitting', slotType)[i]
                   IN  /\ EFFECT_TURRET_FITTED \in m.effects =>
                              FillKeepsCap(slotType, EFFECT_TURRET_FITTED,
                                           shipAttr(shipType, ATTR_TURRET_SLOTS_LEFT, 0))
                       /\ (EFFECT_LAUNCHER_FITTED \in m.effects
                           /\ EFFECT_TURRET_FITTED \notin m.effects) =>
                              FillKeepsCap(slotType, EFFECT_LAUNCHER_FITTED,
                                           shipAttr(shipType, ATTR_LAUNCHER_SLOTS_LEFT, 0))]_vars

\* A fill of launchers has reached the ship's launcher limit and left the
\* other slots of the rack empty.
C6_Witness ==
    /\ lastOp = "fillSlots"
    /\ fitting # Null /\ shipType # Null
    /\ EmptySlots(fitting.high_slots) # {}
    /\ Flagged(fitting.high_slots, EFFECT_LAUNCHER_FITTED) # {}
    /\ FittedWith(fitting, EFFECT_LAUNCHER_FITTED) = shipAttr(shipType, ATTR_LAUNCHER_SLOTS_LEFT, 0)

\* The slots whose module changed its state in this step.
Toggled ==
    {<<slotType, i>> \in SlotTypes \X (1..SLOT_CAP) :
        /\ i \in DOMAIN Slots(fitting, slotType) /\ i \in DOMAIN Slots(fitting', slotType)
        /\ Slots(fitting, slotType)[i] # Null /\ Slots(fitting', slotType)[i] # Null
        /\ Slots(fitting, slotType)[i].state # Slots(fitting', slotType)[i].state}

\* +1 when the step brings the module out of offline, -1 when it puts it
\* offline, 0 otherwise.
UsageSign(before, after) ==
    IF after.state = "offline" THEN -1 ELSE IF before.state = "offline" THEN 1 ELSE 0

\* C14: a toggleModuleState step changes exactly one module's state, and
\* cpu_used and pg_used move by that module's CPU and powergrid usage: down
\* when it goes offline, up when it leaves offline, not at all between
\* active and passive; after the step they are the sums over the fitted
\* modules that are not offline.
C14_ToggleMovesUsage ==
    [][lastOp' = "toggleModuleState" =>
          /\ Cardinality(Toggled) = 1
          /\ \A t \in Toggled :
                 LET before == Slots(fitting, t[1])[t[2]]
                     after == Slots(fitting', t[1])[t[2]]
                 IN  /\ stats'.engineering.cpu_used
                            = stats.engineering.cpu_used
                              + UsageSign(before, after) * modAttr(before, ATTR_MODULE_CPU_USAGE, 0)
                     /\ stats'.engineering.pg_used
                            = stats.engineering.pg_used
                              + UsageSign(before, after) * modAttr(before, ATTR_MODULE_PG_USAGE, 0)
          /\ stats'.engineering.cpu_used
                 = SumUsage(allFittedModules(fitting'), ATTR_MODULE_CPU_USAGE)
          /\ stats'.engineering.pg_used
                 = SumUsage(allFittedModules(fitting'), ATTR_MODULE_PG_USAGE)]_vars

\* The operations that change the open fitting; importFitting is reached
\* from the ESI and the EFT import.
MutationOps == EditOps \cup {"setShip", "importESI", "importEFT"}

\* The ids whose stored item the step creates or changes.
ItemsWritten ==
    {k \in DOMAIN storage'.items :
        k \notin DOMAIN storage.items \/ storage'.items[k] # storage.items[k]}

C19_MutationsAreSaved ==
    (lastOp \in MutationOps /\ fitting # Null) =>
        /\ fitting.id \in DOMAIN storage.items
        /\ storage.items[fitting.id] = fitting

\* -------------------------------------------------- properties: EFT codec

\* The list of a category (1 low .. 7 cargo) in an option record and in a
\* parse result.
OptList(o, c) ==
    CASE c = 1 -> o.lowSlots [] c = 2 -> o.midSlots [] c = 3 -> o.highSlots
      [] c = 4 -> o.rigSlots [] c = 5 -> o.subsystems [] c = 6 -> o.drones
      [] OTHER -> o.cargo

Names(list) == [i \in DOMAIN list |-> list[i].name]

\* The slot count declared for a rack; the option records give all four
\* racks the same.
DeclaredCount(o) == o.lowSlotCount

\* A name that reads back as itself: trimmed, not empty, without a comma,
\* not an empty-slot marker and not ending in a quantity suffix " x<digits>".
PlainName(n) ==
    /\ n # <<>> /\ trim(n) = n
    /\ \A i \in DOMAIN n : n[i] # "," /\ n[i] # "\n"
    /\ ~startsWith(n, <<"[", "E", "m", "p", "t", "y">>)
    /\ ~\E x \in 3..(Len(n) - 1) :
           n[x] = "x" /\ IsSpace(n[x - 1]) /\ \A i \in (x + 1)..Len(n) : IsDigit(n[i])

RacksWithoutCharges(o) ==
    \A c \in 1..4 : \A i \in DOMAIN OptList(o, c) : OptList(o, c)[i].charge = Null

\* The parse result has the ship name, the fit name and the rack names of o.
SameRacks(o, parsed) ==
    /\ parsed.ok
    /\ parsed.shipName = o.shipName
    /\ parsed.fitName = o.fitName
    /\ \A c \in 1..4 : Names(OptList(parsed, c)) = Names(OptList(o, c))

NoRackEmptyBeforeItems(o) ==
    \A c \in 1..4 : OptList(o, c) = <<>> => \A d \in (c + 1)..7 : OptList(o, d) = <<>>

Written(item) ==
    [name |-> item.name, charge |-> item.charge,
     quantity |-> IF item.quantity # Null /\ item.quantity.v > 1 THEN item.quantity ELSE Null]

\* The parse result has the subsystems, drones and cargo of o.
SameTrailingLists(o, parsed) ==
    /\ parsed.ok
    /\ \A c \in 5..7 :
           OptList(parsed, c) = [i \in DOMAIN OptList(o, c) |-> Written(OptList(o, c)[i])]

FirstLine(text) == trim(split(trim(text))[1])

\* [<ship name>, <fit name>] with both names non-empty after trimming.
WellFormedHeader(h) ==
    \E c \in 2..(Len(h) - 1) :
        /\ h[1] = "[" /\ h[Len(h)] = "]" /\ h[c] = ","
        /\ trim(SubSeq(h, 2, c - 1)) # <<>>
        /\ trim(SubSeq(h, c + 1, Len(h) - 1)) # <<>>

\* C9: parseEFT fails whenever the first line is not of the form
\* [<ship name>, <fit name>] with both names non-empty after trimming, and
\* when it succeeds shipName and fitName are the non-empty trimmed names.
C9_HeaderChecked ==
    rtPc = "parsed" =>
        /\ ~WellFormedHeader(FirstLine(rtText)) => ~rtParsed.ok
        /\ rtParsed.ok =>
               /\ rtParsed.shipName # <<>> /\ trim(rtParsed.shipName) = rtParsed.shipName
               /\ rtParsed.fitName # <<>> /\ trim(rtParsed.fitName) = rtParsed.fitName

\* ---------------------------------------------------- properties: skill plan

StageSkills(k) == plan.stages[k].skills

StageIds(k) == {StageSkills(k)[i].skill_type_id : i \in DOMAIN StageSkills(k)}

StageLevel(k, id) ==
    StageSkills(k)[CHOOSE i \in DOMAIN StageSkills(k) : StageSkills(k)[i].skill_type_id = id]
        .required_level

\* C10: in every plan returned, the ids of Mastery include those of
\* Recommended, which include those of Minimum; every Mastery level is 5;
\* every Recommended level is at least 4 and at least the level of the same
\* skill in Minimum.
C10_StagesNested ==
    plan # Null =>
        /\ StageIds(1) \subseteq StageIds(2)
        /\ StageIds(2) \subseteq StageIds(3)
        /\ \A i \in DOMAIN StageSkills(3) : StageSkills(3)[i].required_level = 5
        /\ \A i \in DOMAIN StageSkills(2) :
               /\ StageSkills(2)[i].required_level >= 4
               /\ StageSkills(2)[i].skill_type_id \in StageIds(1) =>
                      StageSkills(2)[i].required_level
                          >= StageLevel(1, StageSkills(2)[i].skill_type_id)

\* A plan whose Minimum stage has a skill at V and one below IV, and whose
\* Recommended stage adds support skills.
C10_Witness ==
    /\ plan # Null
    /\ \E id \in StageIds(1) : StageLevel(1, id) = 5
    /\ \E id \in StageIds(1) : StageLevel(1, id) < 4
    /\ StageIds(2) \ StageIds(1) # {}

\* What the plan must hold, computed without any order: the requirements of
\* the ship and of the modules fetched, closed under the requirements of
\* every skill whose type is fetched and is a skill.
PlanExpands(id) == ~lookupFails(id) /\ PlanType(id).category_id = CATEGORY_SKILL

PairsOf(typeIds) ==
    UNION {{extractSkillReqs(PlanType(id))[i] : i \in DOMAIN extractSkillReqs(PlanType(id))} :
              id \in typeIds}

DirectPairs ==
    PairsOf({planInput.ship}
            \cup {id \in {planInput.modules[i] : i \in DOMAIN planInput.modules} :
                     ~lookupFails(id)})

RECURSIVE ReachedFrom(_)
ReachedFrom(ids) ==
    LET more == ids \cup {r.skill_type_id : r \in PairsOf({id \in ids : PlanExpands(id)})}
    IN  IF more = ids THEN ids ELSE ReachedFrom(more)

ExpectedSkills == ReachedFrom({r.skill_type_id : r \in DirectPairs})

ExpectedLevel(id) ==
    LET pairs == DirectPairs \cup PairsOf({s \in ExpectedSkills : PlanExpands(s)})
        levels == {r.level : r \in {q \in pairs : q.skill_type_id = id}}
    IN  CHOOSE l \in levels : \A m \in levels : m <= l

StagePairs(k) ==
    {<<StageSkills(k)[i].skill_type_id, StageSkills(k)[i].required_level>> :
        i \in DOMAIN StageSkills(k)}

\* C11: whatever the order in which the prerequisite resolutions took their
\* steps, the plan returned holds the skills reachable from the direct
\* requirements through the skills fetched, each at the highest level any
\* fetched type asks of it (Minimum), and at least IV in Recommended.
C11_PlanIsOrderIndependent ==
    plan # Null =>
        /\ DOMAIN allReqs = ExpectedSkills
        /\ StagePairs(1) = {<<id, ExpectedLevel(id)>> : id \in resolveNames(ExpectedSkills)}
        /\ \A id \in resolveNames(ExpectedSkills) :
               <<id, Max(ExpectedLevel(id), 4)>> \in StagePairs(2)

\* A plan returned when two resolutions ran side by side and both required
\* a skill that is no direct requirement, at different levels.
C11_Witness ==
    /\ plan # Null
    /\ \E a, b \in DOMAIN tasks, s \in DOMAIN allReqs \ DOMAIN tasks :
           /\ a # b /\ PlanExpands(a) /\ PlanExpands(b)
           /\ \E ra \in PairsOf({a}), rb \in PairsOf({b}) :
                  /\ ra.skill_type_id = s /\ rb.skill_type_id = s
                  /\ ra.level # rb.level
           /\ s \in StageIds(1)

FailedNames == {id \in DOMAIN allReqs \cup SupportSkillIds : lookupFails(id)}

\* C12: the plan returned has the three stages; Minimum holds every skill
\* collected except those whose name lookup failed, and Recommended holds
\* those and the support skills except those whose name lookup failed.
C12_FailedLookupsOnlyDropTheirSkill ==
    plan # Null =>
        /\ Len(plan.stages) = 3
        /\ StageIds(1) = DOMAIN allReqs \ FailedNames
        /\ StageIds(2) = (DOMAIN allReqs \cup SupportSkillIds) \ FailedNames
        /\ StageIds(3) = StageIds(2)

\* A plan returned although the lookup of a required skill failed, with
\* other skills in it.
C12_Witness ==
    /\ plan # Null
    /\ FailedNames \cap DOMAIN allReqs # {}
    /\ StageIds(1) # {}

\* C13: every run of buildSkillPlan returns a plan, and resolvePrerequisites
\* calls getType at most once for any skill id.
C13_TerminatesFetchingOnce ==
    /\ [](\A id \in DOMAIN fetchCount : fetchCount[id] <= 1)
    /\ <>(planPc = "done")

\* A plan returned for a graph with a cycle (1 -> 3 -> 1), a skill that
\* requires itself (2) and a skill required along several paths (3), all
\* fetched.
C13_Witness ==
    /\ planPc = "done"
    /\ {1, 2, 3} \subseteq DOMAIN fetchCount
    /\ \A id \in {1, 2, 3} : PlanExpands(id)

\* ------------------------------------------------ properties: skill bonuses

\* C15: with one skill at a higher level and everything else equal, no stat
\* where more is better is lower, and capacitor recharge time and inertia
\* are not higher.
C15_BonusesAreMonotone ==
    calcPc = "done" =>
        LET lo == calcResult.low
            hi == calcResult.high
        IN  /\ hi.engineering.cpu_total >= lo.engineering.cpu_total
            /\ hi.engineering.pg_total >= lo.engineering.pg_total
            /\ hi.capacitor.capacity >= lo.capacitor.capacity
            /\ hi.shield.hp >= lo.shield.hp
            /\ hi.armor.hp >= lo.armor.hp
            /\ hi.hull.hp >= lo.hull.hp
            /\ hi.navigation.max_velocity >= lo.navigation.max_velocity
            /\ hi.targeting.max_targets >= lo.targeting.max_targets
            /\ hi.targeting.max_target_range >= lo.targeting.max_target_range
            /\ hi.targeting.scan_resolution >= lo.targeting.scan_resolution
            /\ hi.capacitor.recharge_rate <= lo.capacitor.recharge_rate
            /\ hi.navigation.inertia_modifier <= lo.navigation.inertia_modifier

\* Bonuses applied for a skill that shortens the recharge time, on a base
\* that is not zero: the higher level gives a strictly shorter time.
C15_Witness ==
    /\ calcPc = "done"
    /\ calcArgs.skill = SKILL_CAPACITOR_SYSTEMS_OPERATION
    /\ calcResult.high.capacitor.recharge_rate < calcResult.low.capacitor.recharge_rate
    /\ calcResult.high.capacitor.capacity = calcResult.low.capacitor.capacity

\* ------------------------------------------- properties: capacitor simulator

\* C16: a run with a drain of zero or less returns stable at 100 percent
\* and no lastsSeconds, whatever the capacity and the recharge time.
C16_NoDrainIsStable ==
    (calcPc = "done" /\ calcArgs.drainPerSecond <= 0) =>
        /\ calcResult.stable = TRUE
        /\ calcResult.stablePercent = Some(100)
        /\ calcResult.lastsSeconds = Null

\* A run with a drain of exactly zero on a ship without capacitor data.
C16_Witness ==
    /\ calcPc = "done"
    /\ calcArgs.drainPerSecond = 0
    /\ calcArgs.capacity = 0 /\ calcArgs.rechargeMs = 0
    /\ calcResult.stable = TRUE

RECURSIVE chargeAfter(_, _)
\* The charge after n passes of the loop on the arguments of the run.
chargeAfter(n, cap) ==
    IF n = 0 THEN cap
    ELSE IF n = 1
    THEN capStep(cap, calcArgs.capacity, calcArgs.rechargeMs, calcArgs.drainPerSecond)
    ELSE CHOOSE c \in {chargeAfter(n - n \div 2, half) :
                          half \in {chargeAfter(n \div 2, cap)}} : TRUE

\* The drain is more than 10% above the peak recharge 2.5 * capacity / tau.
DrainBeyondPeak ==
    /\ calcArgs.drainPerSecond > 0
    /\ calcArgs.rechargeMs > 0
    /\ 4 * calcArgs.drainPerSecond * (calcArgs.rechargeMs \div 1000) > 11 * calcArgs.capacity

\* C17: a run whose drain is more than 10% above the peak recharge returns
\* not stable, with lastsSeconds present and not beyond the window: either
\* it is the time of a pass after which the charge is at or below zero, with
\* the charge above zero after each earlier pass, or it is the length of
\* the window and the charge stayed above zero (or is no number) throughout.
C17_DrainedRunsGiveLastsSeconds ==
    (calcPc = "done" /\ DrainBeyondPeak) =>
        /\ calcResult.stable = FALSE
        /\ calcResult.stablePercent = Null
        /\ calcResult.lastsSeconds # Null
        /\ LET k == calcResult.lastsSeconds.v
               passes == passesWithin(calcArgs.maxSimSeconds)
           IN  /\ k <= 10 * calcArgs.maxSimSeconds
               /\ calcArgs.capacity > 0 =>
                      \/ /\ k < passes
                         /\ chargeAfter(k + 1, calcArgs.capacity) <= 0
                         /\ \A j \in 1..k : chargeAfter(j, calcArgs.capacity) > 0
                      \/ /\ k = 10 * calcArgs.maxSimSeconds
                         /\ \A j \in 1..passes : chargeAfter(j, calcArgs.capacity) > 0
               /\ calcArgs.capacity = 0 => k = 10 * calcArgs.maxSimSeconds

\* A drained run that empties the capacitor after several passes, before
\* the window ends.
C17_Witness ==
    /\ calcPc = "done" /\ DrainBeyondPeak
    /\ calcArgs.capacity > 0
    /\ calcResult.lastsSeconds # Null
    /\ calcResult.lastsSeconds.v > 1
    /\ calcResult.lastsSeconds.v < 10 * calcArgs.maxSimSeconds

\* -------------------------------------------------- properties: ESI proxy

\* The requests sent to ESI so far.
Forwarded == SelectSeq(calcResult.sent, LAMBDA m : m.to = "esi")

\* The character ids a path names: the number after a first segment
\* "characters", when that segment is followed by digits only.
PathCharacterIds ==
    LET path == calcArgs.path
    IN  IF Len(path) >= 2 /\ path[1] = SCHARACTERS /\ path[2] # <<>>
           /\ \A i \in DOMAIN path[2] : IsDigit(path[2][i])
        THEN {parseInt(path[2])}
        ELSE {}

\* The path is for a character other than the one of the session.
ForAnotherCharacter ==
    \E id \in PathCharacterIds : id # calcArgs.session.characterId

PathOnAllowlist == isPathAllowed(esiPathOf(calcArgs.path))

\* C20: a request is forwarded to ESI only with a session, an allowlisted
\* path and no character id in the path other than the session's; without
\* a session the answer is 401, with a path off the allowlist 403, with
\* another character's id 403, and in these three cases nothing at all is
\* sent upstream.
C20_ProxyForwardsOnlyChecked ==
    /\ Forwarded # <<>> =>
           /\ calcArgs.session # Null
           /\ PathOnAllowlist
           /\ ~ForAnotherCharacter
           /\ \A i \in DOMAIN Forwarded : Forwarded[i].path = esiPathOf(calcArgs.path)
    /\ calcArgs.session = Null =>
           /\ calcResult.sent = <<>>
           /\ calcPc \in {"proxy", "done"}
           /\ calcPc = "done" => calcResult.response = jsonError("Not authenticated", 401)
    /\ (calcArgs.session # Null /\ ~PathOnAllowlist) =>
           /\ calcResult.sent = <<>>
           /\ calcPc \in {"proxy", "done"}
           /\ calcPc = "done" => calcResult.response = jsonError("Path not allowed", 403)
    /\ (calcArgs.session # Null /\ PathOnAllowlist /\ ForAnotherCharacter) =>
           /\ calcResult.sent = <<>>
           /\ calcPc \in {"proxy", "done"}
           /\ calcPc = "done" => calcResult.response = jsonError("Character mismatch", 403)

\* A request for the skills of the session's own character was forwarded
\* after the token was refreshed, and ESI answered.
C20_Witness ==
    /\ calcPc = "done"
    /\ calcArgs.session # Null
    /\ PathCharacterIds = {calcArgs.session.characterId}
    /\ Len(calcResult.sent) = 2
    /\ Len(Forwarded) = 1
    /\ calcResult.response.status = 200

\* ------------------------------------------------ properties: the token

\* The refresh requests sent to the token endpoint so far.
RefreshesAsked == {i \in DOMAIN calcResult.sent : calcResult.sent[i].to = "sso"}

\* The stored access token has more than 60 seconds left at the request.
MoreThanBufferLeft == calcArgs.session.expiresAt - calcArgs.now > 60

\* The session a refresh at the request's time stores.
UpdatedSession ==
    [characterId |-> calcArgs.session.characterId,
     accessToken |-> tokenResponse.access_token,
     refreshToken |-> tokenResponse.refresh_token,
     expiresAt |-> calcArgs.now + tokenResponse.expires_in]

\* C34: a request that passed the checks is forwarded with the stored access
\* token only when the recorded expiry is more than 60 seconds away, and
\* then without a refresh; otherwise the new token is asked for with the
\* refresh token before the request is forwarded, the request is forwarded
\* with the new token and the updated session is written to the cookie;
\* when the refresh or the verification fails the answer is 401 and
\* nothing is forwarded.
C34_StoredTokenOnlyWithBufferLeft ==
    /\ \A i \in DOMAIN calcResult.sent :
           calcResult.sent[i].to = "esi" =>
               IF MoreThanBufferLeft
               THEN /\ calcResult.sent[i].authorization = calcArgs.session.accessToken
                    /\ RefreshesAsked = {}
                    /\ calcResult.cookies = <<>>
               ELSE /\ calcResult.sent[i].authorization = tokenResponse.access_token
                    /\ \E j \in RefreshesAsked :
                           /\ j < i
                           /\ calcResult.sent[j].refresh_token = calcArgs.session.refreshToken
                    /\ calcResult.cookies = <<writeSessionCookie(UpdatedSession)>>
    /\ (calcPc = "done" /\ RefreshesAsked # {} /\ Forwarded = <<>>) =>
           /\ calcResult.response = jsonError("Token refresh failed", 401)
           /\ calcResult.cookies = <<>>
    /\ (calcArgs.session # Null /\ calcResult.response = jsonError("Token refresh failed", 401)) =>
           /\ ~MoreThanBufferLeft
           /\ Forwarded = <<>>

\* A token with exactly 60 seconds left was refreshed and the request went
\* to ESI with the new token.
C34_Witness ==
    /\ calcPc = "done"
    /\ calcArgs.session # Null
    /\ calcArgs.session.expiresAt - calcArgs.now = 60
    /\ Len(Forwarded) = 1
    /\ Forwarded[1].authorization = tokenResponse.access_token
    /\ calcResult.cookies = <<writeSessionCookie(UpdatedSession)>>

\* ------------------------------------------------ properties: the cache

\* The step is a lookup of the key.
LooksUp(key) == calcArgs' = [op |-> "getType", key |-> key]

\* The entry stored for the key was stored no more than an hour ago.
WithinTheHour(key) ==
    /\ calcResult.cache[key] # Null
    /\ calcResult.now <= calcResult.cache[key].data.arrived + 3600000

\* C35: a lookup returns the cached entry while the time is not later than
\* the time it was stored plus one hour, and leaves the cache alone; a
\* lookup that finds an older entry returns nothing of it, deletes it and
\* starts the fetch of the value, and touches no other key.
C35_CachedForOneHour ==
    [][\A key \in CacheKeys :
          LooksUp(key) =>
              IF WithinTheHour(key)
              THEN /\ calcResult'.returned = calcResult.cache[key].data
                   /\ calcResult'.cache = calcResult.cache
                   /\ calcResult'.pending = calcResult.pending
              ELSE /\ calcResult'.returned = Null
                   /\ calcResult'.cache = [calcResult.cache EXCEPT ![key] = Null]
                   /\ calcResult'.pending =
                          [calcResult.pending EXCEPT ![key] = @ + 1]]_vars

\* An entry stored more than an hour ago was looked up a moment ago: it is
\* gone and its value is being fetched.
C35_Witness ==
    /\ calcPc = "cache"
    /\ calcArgs.op = "getType"
    /\ calcResult.now > 3600000
    /\ calcResult.cache[calcArgs.key] = Null
    /\ calcResult.pending[calcArgs.key] = 1
    /\ \E other \in CacheKeys \ {calcArgs.key} :
           /\ calcResult.cache[other] # Null
           /\ calcResult.cache[other].data.arrived = 0

\* ------------------------------------------- properties: the ship context

\* C36: fitting, shipType and stats are all null or all set, and when they
\* are set the fitting is of the ship type held.
C36_ShipContextMatchesFitting ==
    /\ (fitting = Null) = (shipType = Null)
    /\ (fitting = Null) = (stats = Null)
    /\ fitting # Null /\ shipType # Null => fitting.ship_type_id = shipType.type_id

\* ------------------------------------------ properties: single-slot edits

\* The step is one of the four single-slot edits called with the category
\* and the index.
SingleSlotEdit(slotType, index) ==
    \/ \E type \in ModuleTypes : addModule(slotType, index, type)
    \/ removeModule(slotType, index)
    \/ toggleModuleState(slotType, index)
    \/ \E charge \in Charges : setModuleCharge(slotType, index, charge)

\* The fitting after the step is the fitting before it with the entry at
\* the index of the category replaced.
OnlyEntryChanged(slotType, index) ==
    fitting' = WithSlots(fitting, slotType,
                         [Slots(fitting, slotType) EXCEPT
                             ![index + 1] = Slots(fitting', slotType)[index + 1]])

CleanOps == {"setShip", "importESI", "importEFT", "loadFitting", "saveFitting", "clearShip"}

\* The operations that touch the skills.
SkillOps == {"setSkillMode", "setMySkills"}

\* The step selects a slot, clears the selection, or opens or closes a
\* dialog.
UiEdit ==
    \/ \E slot \in UiSlots : selectSlot(slot)
    \/ clearSlotSelection
    \/ \E slot \in UiSlots \cup {Null} : openModuleSearch(slot)
    \/ closeModuleSearch
    \/ openEFTImport
    \/ closeEFTImport

StateChecked(request) ==
    /\ request.code
    /\ request.state # ""
    /\ request.pkce # Null
    /\ request.pkce.state = request.state

\* The callback being answered has asked for tokens or set a session.
ExchangeBegun ==
    \/ calcResult.sent # <<>>
    \/ \E i \in DOMAIN calcResult.cookies : calcResult.cookies[i].name = "eve_session"

SettledModules == SelectSeq(calcResult.settled, LAMBDA q : q.activeSlot.slotType # "drone")

SettledDrones == SelectSeq(calcResult.settled, LAMBDA q : q.activeSlot.slotType = "drone")

\* C40: whatever the order in which the waiting picks settle, the fitting
\* holds the module of every settled pick in the slot of the pick, unless
\* a pick that settled later went into the same slot, and one drone per
\* settled pick of a drone, in the order they settled.
C40_NoPickLost ==
    /\ \A i \in DOMAIN SettledModules :
           LET pick == SettledModules[i]
               held == Slots(fitting, pick.activeSlot.slotType)[pick.activeSlot.index + 1]
           IN  (\A j \in DOMAIN SettledModules :
                    j > i => SettledModules[j].activeSlot # pick.activeSlot)
               => held # Null /\ held.type_id = pick.type.type_id
    /\ Len(fitting.drones) = Len(SettledDrones)
    /\ \A i \in DOMAIN SettledDrones :
           fitting.drones[i].type_id = SettledDrones[i].type.type_id

\* Two picks for different slots waited at once and the one started first
\* settled last; the fitting holds both modules.
C40_Witness ==
    /\ calcPc = "ui"
    /\ "settled" \in DOMAIN calcResult
    /\ Len(calcResult.settled) = 2
    /\ calcResult.settled[1].n = 2
    /\ calcResult.settled[2].n = 1
    /\ calcResult.settled[1].activeSlot = [slotType |-> "high", index |-> 1]
    /\ calcResult.settled[2].activeSlot = [slotType |-> "high", index |-> 0]
    /\ fitting.high_slots[1] # Null
    /\ fitting.high_slots[2] # Null

\* ------------------------------------------------ properties: skill modes

\* The steps after which the skill mode must show in the stats.
SkillSteps == MutationOps \cup {"setSkillMode", "setMySkills"}

\* The stats the skill mode stands for, on the current ship and fitting.
ModeStats ==
    LET base == calculateShipStats(shipType, fitting)
    IN  CASE skillMode = "none" -> [stats |-> base, skillDeltas |-> Null]
          [] skillMode = "allV" ->
                 applySkillBonuses(base, [id \in SupportSkillIds |-> 5])
          [] skillMode = "mySkills" ->
                 IF skillMap = Null THEN [stats |-> base, skillDeltas |-> Null]
                 ELSE applySkillBonuses(base, skillMap.levels)

\* C21: after a setSkillMode, a setMySkills or a fitting mutation, the
\* stored stats are the base stats in mode none, the base stats under the
\* twelve support skills at level 5 in mode allV, and the base stats under
\* the character's skill map in mode mySkills; skillDeltas is null in mode
\* none and in mode mySkills without a skill map.
C21_StatsFollowSkillMode ==
    (lastOp \in SkillSteps /\ fitting # Null /\ shipType # Null) =>
        /\ Cardinality(SupportSkillIds) = 12
        /\ stats = ModeStats.stats
        /\ skillDeltas = ModeStats.skillDeltas

\* ------------------------------------------------ properties: slot counts

\* C22: a fitting the store holds after a ship selection, an EFT import or
\* an ESI import has at most 8 high, 8 mid and 8 low slots and exactly 3
\* rig slots.
C22_SlotCountsClamped ==
    (lastOp \in {"setShip", "importEFT", "importESI"} /\ fitting # Null) =>
        /\ Len(fitting.high_slots) <= 8
        /\ Len(fitting.mid_slots) <= 8
        /\ Len(fitting.low_slots) <= 8
        /\ Len(fitting.rig_slots) = 3

\* --------------------------------------------- properties: token secrecy

\* The texts the response shows the browser: its body or its redirect URL.
ResponseText ==
    IF calcResult.response = Null THEN {}
    ELSE IF "text" \in DOMAIN calcResult.response THEN calcResult.response.text
    ELSE {calcResult.response.error}

\* The cookies set so far whose value holds a token.
TokenCookies ==
    {i \in DOMAIN calcResult.cookies :
        /\ calcResult.cookies[i].value # Null
        /\ {calcResult.cookies[i].value.enc.accessToken,
            calcResult.cookies[i].value.enc.refreshToken} \cap Tokens # {}}

\* C23: no body and no redirect URL of the session endpoint, the callback
\* or the proxy holds an access or a refresh token; a token goes to the
\* browser only inside the encrypted httpOnly session cookie.
C23_TokensStayServerSide ==
    /\ ResponseText \cap Tokens = {}
    /\ \A i \in DOMAIN calcResult.cookies :
           /\ calcResult.cookies[i].httpOnly
           /\ calcResult.cookies[i].value # Null =>
                  /\ calcResult.cookies[i].name = "eve_session"
                  /\ calcResult.cookies[i].value = encrypt(calcResult.cookies[i].value.enc)

\* The callback has stored a session with its tokens in the cookie and
\* redirected to the front page.
C23_Witness ==
    /\ calcPc = "done"
    /\ "code" \in DOMAIN calcArgs
    /\ TokenCookies # {}
    /\ calcResult.response = redirect({"/"})

\* ------------------------------------------------ properties: rack edits

\* The categories and positions whose slot the step changes.
SlotsChanged ==
    {t \in SlotTypes \X (1..SLOT_CAP) :
        /\ t[2] \in DOMAIN Slots(fitting, t[1])
        /\ \/ t[2] \notin DOMAIN Slots(fitting', t[1])
           \/ Slots(fitting', t[1])[t[2]] # Slots(fitting, t[1])[t[2]]}

\* C24: a fillSlots that fills no slot is no step of the store: every step
\* of fillSlots fills at least one slot that was empty, so with no empty
\* slot in the category, or with the hardpoint cap reached, the fitting,
\* the stats, the skill deltas and the dirty flag stay as they were.
C24_EmptyFillChangesNothing ==
    [][lastOp' = "fillSlots" => \E slotType \in SlotTypes : NewlyFilled(slotType) # {}]_vars

\* A rack was filled up to the turret cap: it still has an empty slot, yet
\* a second fill of the same turret would place nothing, while a fill of
\* the rig rack would place some.
C24_Witness ==
    /\ lastOp = "fillSlots"
    /\ EmptySlots(fitting.high_slots) # {}
    /\ fillResult("high", buildModuleData(Turret, "high")).filled = 0
    /\ fillResult("rig", buildModuleData(Trimark, "rig")).filled > 0

\* The module a fillSlots step places in a category carries no hardpoint flag.
FillsUnflagged(slotType) ==
    \E i \in NewlyFilled(slotType) :
        LET effects == Slots(fitting', slotType)[i].effects
        IN  EFFECT_TURRET_FITTED \notin effects /\ EFFECT_LAUNCHER_FITTED \notin effects

\* C25: a fillSlots step never replaces or alters a slot that was occupied,
\* and when the module it places carries neither the turret-fitted nor the
\* launcher-fitted flag, no slot of the category is empty afterwards.
C25_FillKeepsOccupiedSlots ==
    [][\A slotType \in SlotTypes :
          FillsCategory(slotType) =>
              LET old == Slots(fitting, slotType)
                  new == Slots(fitting', slotType)
              IN  /\ Len(new) = Len(old)
                  /\ \A i \in DOMAIN old : old[i] # Null => new[i] = old[i]
                  /\ FillsUnflagged(slotType) => EmptySlots(new) = {}]_vars

\* The rig rack was just filled (the fill was not of the high rack, which
\* holds no active module, nor of the low rack, which holds none), and the
\* high rack still holds the module that was toggled before the fill.
C25_Witness ==
    /\ lastOp = "fillSlots"
    /\ EmptySlots(fitting.rig_slots) = {}
    /\ EmptySlots(fitting.low_slots) = DOMAIN fitting.low_slots
    /\ \A i \in DOMAIN fitting.high_slots :
           fitting.high_slots[i] # Null => fitting.high_slots[i].state # "active"
    /\ EmptySlots(fitting.high_slots) # DOMAIN fitting.high_slots

\* The states of a module in the order the toggle visits them.
StateCycle == <<"active", "passive", "offline">>

\* The state that follows a state on StateCycle.
CycleSuccessor(state) ==
    LET k == CHOOSE n \in DOMAIN StateCycle : StateCycle[n] = state
    IN  StateCycle[(k % Len(StateCycle)) + 1]

\* All fitted modules of the fitting, as <<category, position>>.
FittedPositions(f) ==
    {t \in SlotTypes \X (1..SLOT_CAP) :
        t[2] \in DOMAIN Slots(f, t[1]) /\ Slots(f, t[1])[t[2]] # Null}

\* C26: a toggleModuleState step acts on one occupied slot and moves that
\* module to the next state of active -> passive -> offline -> active,
\* leaving the module otherwise and every other slot as they were; three
\* toggles bring a state back to itself.  The store takes no toggle step
\* on an empty slot or outside the array.
C26_ToggleCycles ==
    [][lastOp' = "toggleModuleState" =>
          /\ \E t \in FittedPositions(fitting) :
                LET before == Slots(fitting, t[1])[t[2]]
                    after == Slots(fitting', t[1])[t[2]]
                IN  /\ SlotsChanged = {t}
                    /\ after = [before EXCEPT !.state = CycleSuccessor(before.state)]
                    /\ nextState(nextState(after.state)) = before.state
          /\ \A slotType \in SlotTypes :
                Len(Slots(fitting', slotType)) = Len(Slots(fitting, slotType))]_vars

\* The only module of the fitting is active again after a toggle: the step
\* went from offline to active.
C26_Witness ==
    /\ lastOp = "toggleModuleState"
    /\ Cardinality(FittedPositions(fitting)) = 1
    /\ \A t \in FittedPositions(fitting) : Slots(fitting, t[1])[t[2]].state = "active"

RECURSIVE SumAttr(_, _)
\* The sum of an attribute over a list of modules (0 for a module without it).
SumAttr(mods, attrId) ==
    IF mods = <<>> THEN 0 ELSE modAttr(Head(mods), attrId, 0) + SumAttr(Tail(mods), attrId)

\* C28: in the stats computed after a change of the drone list,
\* drone_bandwidth_used and drone_capacity_used are the sums of the
\* bandwidth and bay-volume attributes over the fitting's drones.
C28_DroneUsageSumsDroneList ==
    (lastOp \in {"addDrone", "removeDrone"} /\ fitting # Null /\ stats # Null) =>
        /\ stats.engineering.drone_bandwidth_used = SumAttr(fitting.drones, ATTR_DRONE_BANDWIDTH)
        /\ stats.engineering.drone_capacity_used = SumAttr(fitting.drones, ATTR_DRONE_CAPACITY)

\* activationCost / (cycleTimeMs / 1000) of a module, 0 when it lacks one
\* of the two attributes or has one that is not positive.
DrainContribution(mod) ==
    IF /\ ATTR_MODULE_ACTIVATION_COST \in DOMAIN mod.attributes
       /\ ATTR_MODULE_CYCLE_TIME \in DOMAIN mod.attributes
       /\ mod.attributes[ATTR_MODULE_ACTIVATION_COST] > 0
       /\ mod.attributes[ATTR_MODULE_CYCLE_TIME] > 0
    THEN (mod.attributes[ATTR_MODULE_ACTIVATION_COST] * 1000)
             \div mod.attributes[ATTR_MODULE_CYCLE_TIME]
    ELSE 0

RECURSIVE SumOverPositions(_, _)
\* The drain contributions of the modules at a set of positions, added up.
SumOverPositions(f, positions) ==
    IF positions = {} THEN 0
    ELSE LET t == CHOOSE p \in positions : TRUE
         IN  DrainContribution(Slots(f, t[1])[t[2]]) + SumOverPositions(f, positions \ {t})

ActivePositions(f) == {t \in FittedPositions(f) : Slots(f, t[1])[t[2]].state = "active"}

\* C29: drain_per_second is the sum of activationCost / (cycleTimeMs / 1000)
\* over the active slot modules that have both attributes positive; the
\* store's stats carry it after every rack edit, and when a step toggles a
\* module out of active the drain of the new fitting is the drain of the
\* old one less that module's contribution.
C29_DrainSumsActiveModules ==
    [][LET before == calcCapacitor(shipType, fitting).drain_per_second
           after == calcCapacitor(shipType', fitting').drain_per_second
       IN  /\ after = SumOverPositions(fitting', ActivePositions(fitting'))
           /\ stats'.capacitor.drain_per_second = after
           /\ \A t \in Toggled :
                 Slots(fitting, t[1])[t[2]].state = "active" =>
                     after = before - DrainContribution(Slots(fitting, t[1])[t[2]])]_vars

\* Two turrets and a launcher are fitted, one turret was toggled out of
\* active: the drain is that of the one active turret (the launcher has no
\* activation cost).
C29_Witness ==
    /\ lastOp = "toggleModuleState"
    /\ Cardinality({t \in FittedPositions(fitting) :
                       Slots(fitting, t[1])[t[2]].type_id = Turret.type_id}) = 2
    /\ \E t \in ActivePositions(fitting) : Slots(fitting, t[1])[t[2]].type_id = Launcher.type_id
    /\ stats.capacitor.drain_per_second = 2
    /\ DrainContribution(buildModuleData(Turret, "high")) = 2

\* ----------------------------------- properties: skill-derived fields

\* The fields of a snapshot the deltas are about.
DeltaFields(st) ==
    [cpu_total |-> st.engineering.cpu_total, pg_total |-> st.engineering.pg_total,
     cap_capacity |-> st.capacitor.capacity, cap_recharge |-> st.capacitor.recharge_rate,
     shield_hp |-> st.shield.hp, armor_hp |-> st.armor.hp, hull_hp |-> st.hull.hp,
     max_velocity |-> st.navigation.max_velocity,
     inertia_modifier |-> st.navigation.inertia_modifier,
     align_time |-> st.navigation.align_time,
     max_targets |-> st.targeting.max_targets,
     max_target_range |-> st.targeting.max_target_range,
     scan_resolution |-> st.targeting.scan_resolution]

\* A layer's ehp follows from its hp and its resonances, which are those
\* of the layer before the call.
LayerConsistent(layer, before) ==
    /\ layer.resist = before.resist
    /\ LET sum == layer.resist.em + layer.resist.thermal + layer.resist.kinetic
                      + layer.resist.explosive
       IN  IF sum >= 400 THEN layer.ehp = layer.hp ELSE layer.ehp * sum = layer.hp * 400

\* C30: after applySkillBonuses, under every skill map, cpu_remaining and
\* pg_remaining are total minus used, each layer's ehp follows from its new
\* hp and its unchanged resonances, total_ehp is the sum of the three ehp,
\* align_time follows from the new inertia, and every delta is the skilled
\* value less the value the field had before the call.
C30_DerivedFieldsConsistent ==
    (calcPc = "done" /\ "skills" \in DOMAIN calcArgs) =>
        LET st == calcResult.stats
            before == calcArgs.stats
        IN  /\ st.engineering.cpu_remaining = st.engineering.cpu_total - st.engineering.cpu_used
            /\ st.engineering.pg_remaining = st.engineering.pg_total - st.engineering.pg_used
            /\ LayerConsistent(st.shield, before.shield)
            /\ LayerConsistent(st.armor, before.armor)
            /\ LayerConsistent(st.hull, before.hull)
            /\ st.total_ehp = st.shield.ehp + st.armor.ehp + st.hull.ehp
            /\ st.navigation.align_time = st.navigation.inertia_modifier * st.navigation.mass
            /\ st.navigation.mass = before.navigation.mass
            /\ \A k \in DOMAIN DeltaFields(st) :
                  calcResult.skillDeltas[k] = DeltaFields(st)[k] - DeltaFields(before)[k]

\* Every support skill is trained, the hull has fitted usage and resists:
\* the totals, the three ehp values and the align time all moved.
C30_Witness ==
    /\ calcPc = "done" /\ "skills" \in DOMAIN calcArgs
    /\ calcArgs.stats.engineering.cpu_used > 0
    /\ calcResult.stats.engineering.cpu_remaining > calcArgs.stats.engineering.cpu_remaining
    /\ calcResult.stats.shield.ehp > calcResult.stats.shield.hp
    /\ calcResult.stats.total_ehp > calcArgs.stats.total_ehp
    /\ calcResult.skillDeltas.align_time < 0
    /\ \A k \in DOMAIN calcResult.skillDeltas : calcResult.skillDeltas[k] # 0

\* ------------------------------------------ properties: EFT sections

\* The lines after the header, trimmed, without the marker lines.
KeptLines(text) ==
    LET lines == split(trim(text))
        body == [i \in 1..(Len(lines) - 1) |-> trim(lines[i + 1])]
    IN  SelectSeq(body, LAMBDA l : l \notin EmptyMarkers)

\* The positions where a run of non-blank lines begins, and the run that
\* begins at a position.
GroupStarts(kept) ==
    {i \in DOMAIN kept : kept[i] # <<>> /\ (i = 1 \/ kept[i - 1] = <<>>)}

GroupAt(kept, i) ==
    LET end == CHOOSE e \in i..Len(kept) :
                   /\ \A j \in i..e : kept[j] # <<>>
                   /\ (e = Len(kept) \/ kept[e + 1] = <<>>)
    IN  [j \in 1..(end - i + 1) |-> parseEFTLine(kept[i + j - 1])]

\* The n-th group (from 0) of the kept lines, empty when there are fewer.
NthGroup(kept, n) ==
    IF Cardinality(GroupStarts(kept)) <= n THEN <<>>
    ELSE GroupAt(kept, CHOOSE i \in GroupStarts(kept) :
                           Cardinality({j \in GroupStarts(kept) : j < i}) = n)

\* C31: parseEFT drops the marker lines, takes the runs of lines between
\* blank lines as the sections and assigns them by position: 0 low, 1 mid,
\* 2 high, 3 rig, 4 subsystems, 5 drones, 6 cargo; a marker neither starts
\* nor ends a section, blank lines in a row or around markers give no
\* empty section, and a category past the last section is an empty list.
C31_SectionsByPosition ==
    (rtPc = "parsed" /\ rtParsed.ok) =>
        LET kept == KeptLines(rtText)
        IN  /\ rtParsed.lowSlots = NthGroup(kept, 0)
            /\ rtParsed.midSlots = NthGroup(kept, 1)
            /\ rtParsed.highSlots = NthGroup(kept, 2)
            /\ rtParsed.rigSlots = NthGroup(kept, 3)
            /\ rtParsed.subsystems = NthGroup(kept, 4)
            /\ rtParsed.drones = NthGroup(kept, 5)
            /\ rtParsed.cargo = NthGroup(kept, 6)

\* A text with a marker line among its body lines parsed into a first
\* section of two lines and a second of one, with nothing for the third.
C31_Witness ==
    /\ rtPc = "parsed" /\ rtParsed.ok
    /\ Len(rtParsed.lowSlots) = 2
    /\ Len(rtParsed.midSlots) = 1
    /\ rtParsed.highSlots = <<>>
    /\ \E i \in DOMAIN split(rtText) : split(rtText)[i] \in EmptyMarkers

\* --------------------------------------- properties: the Minimum stage

\* The requirement edges <<from, to, level>> of the types a run fetches:
\* the ship, the module types whose lookup succeeds, and every type that
\* resolves as a skill.
PlanRoots ==
    {planInput.ship} \cup {id \in {planInput.modules[i] : i \in DOMAIN planInput.modules} :
                              ~lookupFails(id)}

EdgesFrom(id) ==
    {<<id, PlanType(id).reqs[i].skill_type_id, PlanType(id).reqs[i].level>> :
        i \in {j \in DOMAIN PlanType(id).reqs :
                  PlanType(id).reqs[j].skill_type_id > 0 /\ PlanType(id).reqs[j].level > 0}}

ResolvedSkill(id) == id \in PlanTypeIds /\ id \notin planInput.fail
                     /\ PlanType(id).category_id = CATEGORY_SKILL

RequiredIds == {e[2] : e \in UNION {EdgesFrom(id) : id \in PlanTypeIds}}

\* A set of ids that holds what the roots require and what its own resolved
\* skills require; the closure is the least such set.
ClosedUnderRequirements(K) ==
    /\ \A r \in PlanRoots : \A e \in EdgesFrom(r) : e[2] \in K
    /\ \A k \in K : ResolvedSkill(k) => \A e \in EdgesFrom(k) : e[2] \in K

RequirementClosure ==
    CHOOSE K \in SUBSET RequiredIds :
        /\ ClosedUnderRequirements(K)
        /\ \A L \in SUBSET RequiredIds : ClosedUnderRequirements(L) => K \subseteq L

\* The levels of the edges that point to a skill from the roots and from
\* the resolved skills of the closure.
LevelsAsked(id) ==
    {e[3] : e \in {d \in UNION {EdgesFrom(src) :
                                   src \in PlanRoots
                                           \cup {k \in RequirementClosure : ResolvedSkill(k)}} :
                      d[2] = id}}

C33_FormatCheckAgreesWithParser ==
    rtPc = "checked" => (rtParsed.looksLikeEFT <=> rtParsed.result.ok)

====
